---- MODULE Spec2Model ----
(***************************************************************************)
(* Model of the controller scaffold generator (scripts/generate-            *)
(* controllers.js, the script that starts at line 118 of                    *)
(* src/eslint.config.js) and of the files it reads and writes.              *)
(*                                                                          *)
(* One run of the script is the sequence of steps                           *)
(*   StartRun, ReadSpec, EnsureDir, ScanPaths, GenerateController*,         *)
(*   Complete, Exit                                                         *)
(* and between runs the developer may edit api/openapi.yaml and the files   *)
(* of src/controllers.                                                      *)
(*                                                                          *)
(* Next to it, the server process (environment validation, the logger, the  *)
(* API-key manager and its security handler, the error-handling            *)
(* middleware), started with StartServer and followed through its imports   *)
(* to Listen and the requests, and the type projections of                  *)
(* types/api-helpers.ts, resolved over the interface `operations`.          *)
(*                                                                          *)
(* The development setup script (scripts/setup.sh) is followed step by     *)
(* step, with the dev server it starts in the background.                   *)
(*                                                                          *)
(* Specifications: Spec and SpecEdits (the script), SpecServer, SpecEnv     *)
(* and SpecApp (the server), SpecTypes (the projections), SpecSetup (the    *)
(* setup script).                                                           *)
(***************************************************************************)
EXTENDS Integers, Sequences, FiniteSets, TLC

\* Largest number of operations of a document.
MaxOps == 2

----------------------------------------------------------------------------
(* Values *)

\* A string made of path segments is the sequence of its segments:
\* 'a/b' is <<"a", "b">>.  The absent (undefined) value of an extension
\* field and the empty string are both falsy in JavaScript and are one value.
NoHandler == <<>>
NoString == ""

TruthyName(name) == name # NoHandler
TruthyString(str) == str # NoString

\* method.toUpperCase()
ToUpperCase(method) ==
    CASE method = "get" -> "GET"
      [] method = "post" -> "POST"
      [] OTHER -> method

\* operation.summary || ''
OrEmpty(str) == IF TruthyString(str) THEN str ELSE NoString

----------------------------------------------------------------------------
(* The OpenAPI document *)

\* Three operations of the template's API: (path, method) with the operation
\* id, summary and description the generated controllers show.
Slots == { <<"/users", "get">>, <<"/users", "post">>, <<"/health", "get">> }

OperationIdAt(slot) ==
    CASE slot = <<"/users", "get">> -> "getUsers"
      [] slot = <<"/users", "post">> -> "createUser"
      [] OTHER -> "getHealth"

SummaryAt(slot) ==
    CASE slot = <<"/users", "get">> -> "Get all users"
      [] slot = <<"/users", "post">> -> "Create a new user"
      [] OTHER -> "Health check endpoint"

\* GET /health declares no description.
DescriptionAt(slot) ==
    CASE slot = <<"/users", "get">> -> "Returns a list of all registered users"
      [] slot = <<"/users", "post">> -> "Creates a new user in the system"
      [] OTHER -> NoString

\* Handler names an operation may declare.  './userController' names the
\* same module as 'userController'.
HandlerNames == { << "userController" >>, << "healthController" >>,
                  << ".", "userController" >> }

\* One (path, method, operation) triple of the document.
Entry(slot, handler, operationId) ==
    [ path |-> slot[1], method |-> slot[2],
      handler |-> handler, operationId |-> operationId,
      summary |-> SummaryAt(slot), description |-> DescriptionAt(slot) ]

\* Each extension field of an operation is present or absent independently
\* of the other one and of the other fields.
Pool ==
    UNION { { Entry(slot, h, id) :
                h \in HandlerNames \cup {NoHandler},
                id \in {OperationIdAt(slot), NoString} } : slot \in Slots }

\* The operations the generator acts on.
QualifyingPool == { e \in Pool : TruthyName(e.handler) /\ TruthyString(e.operationId) }

SlotOf(e) == <<e.path, e.method>>

\* The document is a mapping path -> method -> operation: a (path, method)
\* occurs once and the methods of a path are listed together.
IsMapping(entries) ==
    /\ \A i, j \in 1..Len(entries) :
          SlotOf(entries[i]) = SlotOf(entries[j]) => i = j
    /\ \A i, j, k \in 1..Len(entries) :
          (i < j /\ j < k /\ entries[i].path = entries[k].path)
              => entries[j].path = entries[i].path

EntriesOver(pool) ==
    { entries \in UNION { [1..n -> pool] : n \in 0..MaxOps } : IsMapping(entries) }

\* What api/openapi.yaml holds: a file that cannot be read, text that is not
\* YAML, a YAML document without a paths mapping, or a document with paths.
Document(kind, entries) == [ kind |-> kind, paths |-> entries ]

DocumentsOver(pool) ==
    { Document("ok", entries) : entries \in EntriesOver(pool) }
        \cup { Document(kind, << >>) : kind \in {"unreadable", "malformed", "nopaths"} }

----------------------------------------------------------------------------
(* Paths of files *)

\* const controllersDir = './src/controllers'
controllersDir == << ".", "src", "controllers" >>

\* `${controllerName}.ts`
FileName(controllerName) ==
    [ controllerName EXCEPT ![Len(controllerName)] = @ \o ".ts" ]

\* path.normalize on a relative path: '.' segments are dropped and 'x/..'
\* cancels; a leading '..' stays.
RECURSIVE Normalize(_, _)
Normalize(done, rest) ==
    IF rest = << >> THEN done
    ELSE LET seg == Head(rest) IN
         IF seg = "." THEN Normalize(done, Tail(rest))
         ELSE IF seg = ".." /\ done # << >> /\ done[Len(done)] # ".."
              THEN Normalize(SubSeq(done, 1, Len(done) - 1), Tail(rest))
              ELSE Normalize(Append(done, seg), Tail(rest))

\* path.join(a, b): the segments of both, normalized.
PathJoin(a, b) == Normalize(<< >>, a \o b)

\* const filePath = path.join(controllersDir, fileName)
FilePath(controllerName) == PathJoin(controllersDir, FileName(controllerName))

----------------------------------------------------------------------------
(* Scanning the document *)

\* A gate that forgets the operation id.
Qualifies_HandlerOnly(operation) == TruthyName(operation.handler)

\* if (operation['x-eov-operation-handler'] && operation['x-eov-operation-id'])
Qualifies(operation) ==
    TruthyName(operation.handler) /\ TruthyString(operation.operationId)

\* The descriptor pushed for an operation.
Descriptor(e) ==
    [ operationId |-> e.operationId,
      method |-> ToUpperCase(e.method),
      path |-> e.path,
      summary |-> OrEmpty(e.summary),
      description |-> OrEmpty(e.description) ]

\* The Map `controllers` is the sequence of its entries, in insertion order.
Has(controllers, name) == \E i \in 1..Len(controllers) : controllers[i].name = name

\* controllers.set(handlerName, []) without the has() test before it: the
\* list of a known handler starts over.
Push_Reset(controllers, name, descriptor) ==
    IF Has(controllers, name)
    THEN [ i \in 1..Len(controllers) |->
             IF controllers[i].name = name
             THEN [ controllers[i] EXCEPT !.operations = << descriptor >> ]
             ELSE controllers[i] ]
    ELSE Append(controllers, [ name |-> name, operations |-> << descriptor >> ])

\* unshift for push: the descriptor goes to the front of the list.
Push_Unshift(controllers, name, descriptor) ==
    LET withKey == IF Has(controllers, name) THEN controllers
                   ELSE Append(controllers, [ name |-> name, operations |-> << >> ])
    IN [ i \in 1..Len(withKey) |->
           IF withKey[i].name = name
           THEN [ withKey[i] EXCEPT !.operations = << descriptor >> \o @ ]
           ELSE withKey[i] ]

\* controllers.set(handlerName, []) when the key is new, then
\* controllers.get(handlerName).push(descriptor)
Push(controllers, name, descriptor) ==
    LET withKey == IF Has(controllers, name) THEN controllers
                   ELSE Append(controllers, [ name |-> name, operations |-> << >> ])
    IN [ i \in 1..Len(withKey) |->
           IF withKey[i].name = name
           THEN [ withKey[i] EXCEPT !.operations = Append(@, descriptor) ]
           ELSE withKey[i] ]

\* One iteration of the inner forEach.
ScanOne(controllers, e) ==
    IF Qualifies(e) THEN Push(controllers, e.handler, Descriptor(e)) ELSE controllers

\* Object.entries(apiSpec.paths).forEach(... Object.entries(methods).forEach(...))
RECURSIVE ScanFrom(_, _)
ScanFrom(controllers, entries) ==
    IF entries = << >> THEN controllers
    ELSE ScanFrom(ScanOne(controllers, Head(entries)), Tail(entries))

Scan(entries) == ScanFrom(<< >>, entries)

----------------------------------------------------------------------------
(* The generated text *)

\* generateTypeAnnotations(operationId).operation
TypeAnnotation(operationId) == << "operations", operationId >>

\* The text appended for one operation: its doc comment, the exported
\* constant and its three typed parameters, and the placeholder response.
Stub(op) ==
    [ summary |-> op.summary,
      description |-> op.description,
      route |-> << op.method, op.path >>,
      export |-> op.operationId,
      params |-> << "req", "res", "next" >>,
      paramTypes |-> << << "Request" >>, << "Response" >>, << "NextFunction" >> >>,
      types |-> TypeAnnotation(op.operationId),
      status |-> 200,
      message |-> op.operationId,
      method |-> op.method,
      path |-> op.path ]

\* `content = ...` for `content += ...`: only the last stub stays.
Render_LastOnly(controllerName, operations) ==
    [ kind |-> "generated",
      header |-> controllerName,
      stubs |-> IF operations = << >> THEN << >>
                ELSE << Stub(operations[Len(operations)]) >> ]

\* The content of a controller file: the header naming the controller and
\* one stub per operation, in order.
Render(controllerName, operations) ==
    [ kind |-> "generated",
      header |-> controllerName,
      stubs |-> [ i \in 1..Len(operations) |-> Stub(operations[i]) ] ]

----------------------------------------------------------------------------
(* State *)

VARIABLES
    doc,          \* what api/openapi.yaml holds
    dirExists,    \* whether src/controllers exists
    files,        \* the files under src/controllers: path -> content
    pc,           \* where the running script is; "idle" when none runs
    apiSpec,      \* const apiSpec = yaml.load(yamlContent)
    controllers,  \* const controllers = new Map()
    idx,          \* position of controllers.forEach
    log,          \* what the run printed with console.log
    exitCode,     \* exit code of the process, -1 while it runs
    error,        \* the call that threw, "none" when none did
    runStart,     \* the files and the directory when the run started
    prev,         \* how the run before this one ended and what it wrote
    since         \* what the developer changed since that run ended

\* The server process, npm start, next to the script.
VARIABLES
    env,            \* process.env with the .env file loaded into it
    keysFile,       \* what the API-keys file at apiKeysPath holds
    srv,            \* where the server process is; "down" when none runs
    config,         \* export const config = validateEnv()
    apiKeyManager,  \* let apiKeyManager: ApiKeyManager | null
    loadHist,       \* how the load at module start went, and what the file
                    \* held at the latest load that succeeded
    last            \* the latest call or request and what came of it

genVars == << doc, dirExists, files, pc, apiSpec, controllers, idx, log,
              exitCode, error, runStart, prev, since >>
serverVars == << env, keysFile, srv, config, apiKeyManager, loadHist, last >>

\* The types, which exist while the project is compiled only.
VARIABLES
    schema,         \* types/schema.d.ts, what the schema compiler made of
                    \* the document: the interface `operations`
    resolved        \* the latest projection the compiler resolved, and to what

typeVars == << schema, resolved >>

\* The development setup script, scripts/setup.sh.
VARIABLES
    step,            \* where the script is; "off" when it does not run
    DEV_SERVER_PID,  \* the shell variable, unset before the server is started
    ATTEMPT,         \* the shell variable
    SERVER_READY,    \* the shell variable
    devServer,       \* the process `yarn dev &` started
    polls,           \* how each curl of /health ended, in order
    printed,         \* what print_success and print_error wrote
    setupExit,       \* exit status of the script, once it has ended
    signalled        \* the process ids cleanup sent a signal to

setupVars == << step, DEV_SERVER_PID, ATTEMPT, SERVER_READY, devServer, polls,
                printed, setupExit, signalled >>

vars == << genVars, serverVars, typeVars, setupVars >>

\* A value that may be absent (undefined, null): << >> when absent, << v >>
\* when it is v.
Undefined == << >>
Some(v) == << v >>
ValueOf(o) == o[1]

\* The server's variables while no server process runs.
NoEvent == [ kind |-> "none" ]
NoLoads == [ atStart |-> "none", content |-> Undefined ]
NoProcess ==
    /\ srv = "down"
    /\ config = Undefined
    /\ apiKeyManager = Undefined
    /\ loadHist = NoLoads
    /\ last = NoEvent

\* An environment that sets nothing, and no API-keys file.
NoEnv == [ PORT |-> Undefined, NODE_ENV |-> Undefined ]
NoKeysFile == [ kind |-> "missing", apiKeys |-> << >> ]

\* The server is not part of the runs of the script.
ServerAside ==
    /\ env = NoEnv
    /\ keysFile = NoKeysFile
    /\ NoProcess

\* Nothing is being compiled.
NoSchema == [ operations |-> << >> ]
NoProjection == [ kind |-> "none" ]
TypesAside ==
    /\ schema = NoSchema
    /\ resolved = NoProjection

\* The setup script does not run.
SetupAside ==
    /\ step = "off"
    /\ DEV_SERVER_PID = Undefined
    /\ ATTEMPT = 0
    /\ SERVER_READY = FALSE
    /\ devServer = "none"
    /\ polls = << >>
    /\ printed = << >>
    /\ setupExit = Undefined
    /\ signalled = << >>

fsVars == << doc, dirExists, files >>
runVars == << apiSpec, controllers, idx, log, exitCode, error >>
histVars == << runStart, prev, since >>

\* A file a developer wrote or edited by hand.
HandWritten == [ kind |-> "hand", header |-> << "edited" >>, stubs |-> << >> ]

\* The paths the handler names of the documents lead to.
ControllerPaths == { FilePath(name) : name \in HandlerNames }

NoDocument == Document("none", << >>)
NoSnapshot == [ files |-> << >>, dirExists |-> FALSE ]
NoEdit == [ kind |-> "none", name |-> NoHandler ]
NoRun == [ result |-> "none", wrote |-> {} ]

\* fs.existsSync(filePath)
ExistsSync(fs, filePath) == filePath \in DOMAIN fs

\* fs.writeFileSync(filePath, content) when it returns
WriteFile(fs, filePath, content) ==
    [ p \in DOMAIN fs \cup {filePath} |-> IF p = filePath THEN content ELSE fs[p] ]

\* What fs.writeFileSync may leave behind when it throws: nothing (the file
\* could not be opened), or the file cut short after some of the stubs.
AfterFailedWrite(fs, filePath, controllerName, operations) ==
    {fs} \cup
    { WriteFile(fs, filePath, Render(controllerName, SubSeq(operations, 1, k))) :
        k \in 0..(Len(operations) - 1) }

\* console.log messages
Message(kind, fileName, ids) == [ kind |-> kind, fileName |-> fileName, ids |-> ids ]
SkipMessage(fileName) == Message("already exists, skipping", fileName, << >>)
GeneratedMessage(fileName) == Message("Generated", fileName, << >>)
OperationsMessage(operations) ==
    Message("Operations", << >>,
            [ i \in 1..Len(operations) |-> operations[i].operationId ])
CompletedMessage == Message("Generation completed", << >>, << >>)

\* The per-group messages of the log, in order: one for each group processed.
IsMark(m) == m.kind \in {"already exists, skipping", "Generated"}
Marks == SelectSeq(log, IsMark)

Skipped(i) == i <= Len(Marks) /\ Marks[i].kind = "already exists, skipping"
Written(i) == i <= Len(Marks) /\ Marks[i].kind = "Generated"

\* An uncaught exception ends the process with exit code 1.
Throw(what) ==
    /\ pc' = "failed"
    /\ error' = what
    /\ exitCode' = 1

TypeOK ==
    /\ dirExists \in BOOLEAN
    /\ DOMAIN files \subseteq ControllerPaths
    /\ pc \in {"idle", "read", "mkdir", "scan", "generate", "done", "failed"}
    /\ idx \in 0..(MaxOps + 1)
    /\ exitCode \in {-1, 0, 1}
    /\ prev.result \in {"none", "ok", "failed"}
    /\ prev.wrote \subseteq HandlerNames

----------------------------------------------------------------------------
(* The script *)

\* node scripts/generate-controllers.js
StartRun ==
    /\ pc = "idle"
    /\ pc' = "read"
    /\ runStart' = [ files |-> files, dirExists |-> dirExists ]
    /\ UNCHANGED << fsVars, runVars, prev, since >>
    /\ UNCHANGED << serverVars, typeVars, setupVars >>

\* fs.readFileSync('./api/openapi.yaml', 'utf8') throws when the file
\* cannot be read.
ReadFileThrows(document) == document.kind = "unreadable"

\* A parser that returns undefined for text that is not YAML.
YamlLoad_Lenient(document) == FALSE

\* yaml.load(yamlContent) throws on text that is not YAML.
YamlLoadThrows(document) == document.kind = "malformed"

\* const yamlContent = fs.readFileSync(...); const apiSpec = yaml.load(...)
ReadSpec ==
    /\ pc = "read"
    /\ IF ReadFileThrows(doc) THEN
            Throw("readFileSync") /\ UNCHANGED apiSpec
       ELSE IF YamlLoadThrows(doc) THEN
            Throw("yaml.load") /\ UNCHANGED apiSpec
       ELSE /\ apiSpec' = doc
            /\ pc' = "mkdir"
            /\ UNCHANGED << exitCode, error >>
    /\ UNCHANGED << fsVars, controllers, idx, log, histVars >>
    /\ UNCHANGED << serverVars, typeVars, setupVars >>

\* if (!fs.existsSync(controllersDir)) fs.mkdirSync(controllersDir, ...)
EnsureDir ==
    /\ pc = "mkdir"
    /\ IF dirExists THEN
            /\ pc' = "scan"
            /\ UNCHANGED << dirExists, exitCode, error >>
       ELSE \/ /\ dirExists' = TRUE
               /\ pc' = "scan"
               /\ UNCHANGED << exitCode, error >>
            \/ /\ Throw("mkdirSync")
               /\ UNCHANGED dirExists
    /\ UNCHANGED << doc, files, apiSpec, controllers, idx, log, histVars >>
    /\ UNCHANGED << serverVars, typeVars, setupVars >>

\* const controllers = new Map(); Object.entries(apiSpec.paths).forEach(...)
ScanPaths ==
    /\ pc = "scan"
    /\ IF apiSpec.kind # "ok" THEN
            Throw("Object.entries") /\ UNCHANGED << controllers, idx >>
       ELSE /\ controllers' = Scan(apiSpec.paths)
            /\ idx' = 1
            /\ pc' = "generate"
            /\ UNCHANGED << exitCode, error >>
    /\ UNCHANGED << fsVars, apiSpec, log, histVars >>
    /\ UNCHANGED << serverVars, typeVars, setupVars >>

\* A gate that looks for the directory instead of the file.
AlreadyExists_Dir(filePath) == dirExists

\* A gate that never finds the file.
AlreadyExists_Never(filePath) == FALSE

\* A gate that looks into the file and lets the run regenerate what the
\* generator wrote before, keeping only what a developer wrote.
AlreadyExists_Unedited(filePath) ==
    ExistsSync(files, filePath) /\ files[filePath].kind = "hand"

\* if (fs.existsSync(filePath))
AlreadyExists(filePath) == ExistsSync(files, filePath)

\* An existing file treated as an error.
SkipExisting_Fatal(fileName) ==
    /\ log' = Append(log, SkipMessage(fileName))
    /\ pc' = "failed"
    /\ error' = "exists"
    /\ exitCode' = 1
    /\ UNCHANGED << files, idx >>

\* console.log(`${fileName} already exists, skipping...`); return;
SkipExisting(fileName) ==
    /\ log' = Append(log, SkipMessage(fileName))
    /\ idx' = idx + 1
    /\ UNCHANGED << files, pc, exitCode, error >>

\* fs.writeFileSync(filePath, content) and the two console.log after it
WriteController(controllerName, operations, fileName, filePath) ==
    /\ files' = WriteFile(files, filePath, Render(controllerName, operations))
    /\ log' = log \o << GeneratedMessage(fileName), OperationsMessage(operations) >>
    /\ idx' = idx + 1
    /\ UNCHANGED << pc, exitCode, error >>

\* The write wrapped in a try/catch that goes on with the next group.
OnWriteError_Caught ==
    /\ error' = "writeFileSync"
    /\ idx' = idx + 1
    /\ UNCHANGED << pc, exitCode, log >>

\* fs.writeFileSync throws: nothing around the call catches it.
OnWriteError ==
    /\ Throw("writeFileSync")
    /\ UNCHANGED << log, idx >>

\* One iteration of controllers.forEach((operations, controllerName) => ...)
GenerateController ==
    /\ pc = "generate"
    /\ idx <= Len(controllers)
    /\ LET controllerName == controllers[idx].name
           operations == controllers[idx].operations
           fileName == FileName(controllerName)
           filePath == FilePath(controllerName)
       IN IF AlreadyExists(filePath) THEN
               SkipExisting(fileName)
          ELSE \/ WriteController(controllerName, operations, fileName, filePath)
               \/ /\ files' \in AfterFailedWrite(files, filePath,
                                                 controllerName, operations)
                  /\ OnWriteError
    /\ UNCHANGED << doc, dirExists, apiSpec, controllers, histVars >>
    /\ UNCHANGED << serverVars, typeVars, setupVars >>

\* console.log('Generation completed!') and the end of the script
Complete ==
    /\ pc = "generate"
    /\ idx > Len(controllers)
    /\ log' = Append(log, CompletedMessage)
    /\ pc' = "done"
    /\ exitCode' = 0
    /\ UNCHANGED << fsVars, apiSpec, controllers, idx, error, histVars >>
    /\ UNCHANGED << serverVars, typeVars, setupVars >>

\* The process is gone; its memory and output with it.
Exit ==
    /\ pc \in {"done", "failed"}
    /\ pc' = "idle"
    /\ prev' = [ result |-> IF pc = "done" THEN "ok" ELSE "failed",
                 wrote |-> { controllers[i].name : i \in
                               { j \in 1..Len(controllers) : Written(j) } } ]
    /\ since' = NoEdit
    /\ apiSpec' = NoDocument
    /\ controllers' = << >>
    /\ idx' = 0
    /\ log' = << >>
    /\ exitCode' = -1
    /\ error' = "none"
    /\ runStart' = NoSnapshot
    /\ UNCHANGED fsVars
    /\ UNCHANGED << serverVars, typeVars, setupVars >>

Run == StartRun \/ ReadSpec \/ EnsureDir \/ ScanPaths \/ GenerateController
          \/ Complete \/ Exit

----------------------------------------------------------------------------
(* Runs of the script on a document and a directory that nobody edits *)

InitialFiles ==
    UNION { [ S -> {HandWritten} ] : S \in SUBSET ControllerPaths }

InitRun ==
    /\ pc = "idle"
    /\ apiSpec = NoDocument
    /\ controllers = << >>
    /\ idx = 0
    /\ log = << >>
    /\ exitCode = -1
    /\ error = "none"
    /\ runStart = NoSnapshot
    /\ prev = NoRun
    /\ since = NoEdit

Init ==
    /\ doc \in DocumentsOver(Pool)
    /\ dirExists \in BOOLEAN
    /\ files \in InitialFiles
    /\ ~dirExists => files = << >>
    /\ InitRun
    /\ ServerAside
    /\ TypesAside
    /\ SetupAside

Next == Run

Spec == Init /\ [][Next]_vars

----------------------------------------------------------------------------
(* Runs of the script with a developer editing between them *)

\* The handler the template's document declares for an operation; for
\* POST /users also its other spelling.
HandlersAt(slot) ==
    CASE slot = << "/users", "get" >> -> { << "userController" >> }
      [] slot = << "/users", "post" >> ->
            { << "userController" >>, << ".", "userController" >> }
      [] OTHER -> { << "healthController" >> }

\* The documents the developer moves between: any choice and order of the
\* template's operations, each with its handler and operation id.
EditPool == { e \in QualifyingPool : e.handler \in HandlersAt(SlotOf(e)) }

EditEntries == EntriesOver(EditPool)
EditDocuments == DocumentsOver(EditPool)

GroupNames(entries) ==
    { Scan(entries)[i].name : i \in 1..Len(Scan(entries)) }

\* `after` is `before` plus the operations of one handler group `name`
\* that `before` does not have.
PlusOneGroup(before, after, name) ==
    LET InGroup(e) == Qualifies(e) /\ e.handler = name
        Other(e) == ~InGroup(e)
    IN /\ name \notin GroupNames(before)
       /\ name \in GroupNames(after)
       /\ SelectSeq(after, Other) = before

\* The developer rewrites api/openapi.yaml.
EditDocument ==
    /\ pc = "idle"
    /\ doc' \in EditDocuments \ {doc}
    /\ since' = [ kind |-> "other", name |-> NoHandler ]
    /\ UNCHANGED << dirExists, files, pc, runVars, runStart, prev >>
    /\ UNCHANGED << serverVars, typeVars, setupVars >>

\* The developer adds the operations of one new handler to api/openapi.yaml.
AddHandlerGroup ==
    /\ pc = "idle"
    /\ doc.kind = "ok"
    /\ \E after \in EditEntries, name \in HandlerNames :
          /\ PlusOneGroup(doc.paths, after, name)
          /\ doc' = Document("ok", after)
          /\ since' = IF since.kind = "none"
                      THEN [ kind |-> "group added", name |-> name ]
                      ELSE [ kind |-> "other", name |-> NoHandler ]
    /\ UNCHANGED << dirExists, files, pc, runVars, runStart, prev >>
    /\ UNCHANGED << serverVars, typeVars, setupVars >>

\* The developer writes or rewrites a file of src/controllers.
EditFile ==
    /\ pc = "idle"
    /\ dirExists
    /\ \E filePath \in ControllerPaths :
          /\ ~(ExistsSync(files, filePath) /\ files[filePath] = HandWritten)
          /\ files' = WriteFile(files, filePath, HandWritten)
    /\ since' = [ kind |-> "other", name |-> NoHandler ]
    /\ UNCHANGED << doc, dirExists, pc, runVars, runStart, prev >>
    /\ UNCHANGED << serverVars, typeVars, setupVars >>

\* The developer deletes a file of src/controllers.
DeleteFile ==
    /\ pc = "idle"
    /\ \E filePath \in DOMAIN files :
          files' = [ p \in DOMAIN files \ {filePath} |-> files[p] ]
    /\ since' = [ kind |-> "other", name |-> NoHandler ]
    /\ UNCHANGED << doc, dirExists, pc, runVars, runStart, prev >>
    /\ UNCHANGED << serverVars, typeVars, setupVars >>

Developer == EditDocument \/ AddHandlerGroup \/ EditFile \/ DeleteFile

InitEdits ==
    /\ doc \in EditDocuments
    /\ dirExists \in BOOLEAN
    /\ files = << >>
    /\ InitRun
    /\ ServerAside
    /\ TypesAside
    /\ SetupAside

NextEdits == Run \/ Developer

SpecEdits == InitEdits /\ [][NextEdits]_vars

----------------------------------------------------------------------------
(* The server: environment validation *)

\* The text of an environment variable, character by character.
Digits == { "0", "1", "2", "3", "4", "5", "6", "7", "8", "9" }
WhiteSpace == { " " }

DigitValue(c) ==
    CASE c = "0" -> 0 [] c = "1" -> 1 [] c = "2" -> 2 [] c = "3" -> 3
      [] c = "4" -> 4 [] c = "5" -> 5 [] c = "6" -> 6 [] c = "7" -> 7
      [] c = "8" -> 8 [] OTHER -> 9

RECURSIVE TrimStart(_)
TrimStart(text) ==
    IF text # << >> /\ Head(text) \in WhiteSpace THEN TrimStart(Tail(text))
    ELSE text

RECURSIVE LeadingDigits(_)
LeadingDigits(text) ==
    IF text # << >> /\ Head(text) \in Digits
    THEN << Head(text) >> \o LeadingDigits(Tail(text))
    ELSE << >>

RECURSIVE DecimalValue(_, _)
DecimalValue(acc, digits) ==
    IF digits = << >> THEN acc
    ELSE DecimalValue(10 * acc + DigitValue(Head(digits)), Tail(digits))

NaN == [ nan |-> TRUE, value |-> 0 ]
Number(n) == [ nan |-> FALSE, value |-> n ]

\* parseInt(val, 10): leading white space is dropped, a sign is read, then
\* the digits up to the first character that is not one; NaN without a
\* digit.
ParseInt(val) ==
    LET trimmed == TrimStart(val)
        signed == trimmed # << >> /\ Head(trimmed) \in { "-", "+" }
        sign == IF trimmed # << >> /\ Head(trimmed) = "-" THEN -1 ELSE 1
        digits == LeadingDigits(IF signed THEN Tail(trimmed) ELSE trimmed)
    IN IF digits = << >> THEN NaN ELSE Number(sign * DecimalValue(0, digits))

\* A range check that forgets the upper end.
NumberInRange_NoMax(n, min, max) == ~n.nan /\ n.value >= min

\* z.number().min(min).max(max): NaN is not a number.
NumberInRange(n, min, max) == ~n.nan /\ n.value >= min /\ n.value <= max

Parsed(data) == [ success |-> TRUE, data |-> data ]
Issue(path) == [ success |-> FALSE, data |-> path ]

\* PORT: z.string().transform((val) => parseInt(val, 10))
\*         .pipe(z.number().min(1).max(65535)).optional().default(3000)
PortSchema(input) ==
    IF input = Undefined THEN Parsed(3000)
    ELSE IF NumberInRange(ParseInt(ValueOf(input)), 1, 65535)
         THEN Parsed(ParseInt(ValueOf(input)).value)
         ELSE Issue("PORT")

NodeEnvs == { "development", "production", "test" }

\* NODE_ENV: z.enum(['development', 'production', 'test']).optional()
\*             .default('development')
NodeEnvSchema(input) ==
    IF input = Undefined THEN Parsed("development")
    ELSE IF ValueOf(input) \in NodeEnvs THEN Parsed(ValueOf(input))
         ELSE Issue("NODE_ENV")

\* envSchema.safeParse(process.env): the data when every field parses, the
\* paths of the issues otherwise.
SafeParse(e) ==
    LET port == PortSchema(e.PORT)
        nodeEnv == NodeEnvSchema(e.NODE_ENV)
    IN IF port.success /\ nodeEnv.success
       THEN [ success |-> TRUE,
              data |-> [ PORT |-> port.data, NODE_ENV |-> nodeEnv.data ],
              issues |-> << >> ]
       ELSE [ success |-> FALSE,
              data |-> Undefined,
              issues |-> (IF port.success THEN << >> ELSE << port.data >>)
                         \o (IF nodeEnv.success THEN << >> ELSE << nodeEnv.data >>) ]

\* validateEnv(): result.data, or `threw` with the message lines when
\* !result.success.
ValidateEnv(e) ==
    LET result == SafeParse(e)
    IN IF ~result.success
       THEN [ threw |-> TRUE, value |-> Undefined, issues |-> result.issues ]
       ELSE [ threw |-> FALSE, value |-> Some(result.data), issues |-> << >> ]

\* What PORT may be set to in .env or in the shell: "3000", "1", "65535",
\* "8080abc", " 42", and what must not go through: "0", "65536", "-1",
\* "abc", "".
PortTexts ==
    { << "3", "0", "0", "0" >>, << "1" >>, << "6", "5", "5", "3", "5" >>,
      << "8", "0", "8", "0", "a", "b", "c" >>, << " ", "4", "2" >>,
      << "0" >>, << "6", "5", "5", "3", "6" >>, << "-", "1" >>,
      << "a", "b", "c" >>, << >> }

NodeEnvTexts == NodeEnvs \cup { "staging", "" }

Environments ==
    [ PORT : { Undefined } \cup { Some(t) : t \in PortTexts },
      NODE_ENV : { Undefined } \cup { Some(t) : t \in NodeEnvTexts } ]

----------------------------------------------------------------------------
(* The server: the logger *)

LoggerMethods == { "log", "debug", "info", "warn", "error" }

\* A test that takes only development for non-production.
IsNonProduction_DevOnly(cfg) == cfg.NODE_ENV = "development"

\* private isNonProduction(): config.NODE_ENV !== 'production'
IsNonProduction(cfg) == cfg.NODE_ENV # "production"

ConsoleLine(stream, tag) == << [ stream |-> stream, tag |-> tag ] >>

\* logger.log / debug / info / warn / error: the lines the call puts on the
\* console.
LoggerOutput(cfg, method) ==
    CASE method = "log" ->
            IF IsNonProduction(cfg) THEN ConsoleLine("console.log", "[LOG]") ELSE << >>
      [] method = "debug" ->
            IF IsNonProduction(cfg) THEN ConsoleLine("console.log", "[DEBUG]") ELSE << >>
      [] method = "info" ->
            IF IsNonProduction(cfg) THEN ConsoleLine("console.log", "[INFO]") ELSE << >>
      [] method = "warn" -> ConsoleLine("console.warn", "[WARN]")
      [] OTHER -> ConsoleLine("console.error", "[ERROR]")

----------------------------------------------------------------------------
(* The server: API keys *)

\* The keys of the API-keys file, and what a request may carry in its
\* x-api-key header: a key of the file, the empty text, a text that is no
\* key, or the name of a member every object inherits.
ApiKeys == { "key-a", "key-b" }
InheritedKeys == { "constructor" }
KeyTexts == ApiKeys \cup InheritedKeys \cup { "", "no-such-key" }

\* An ApiKeyConfig: { name, description, createdAt, active }
KeyConfig(key, active) == [ name |-> key, active |-> active ]

\* The apiKeys maps an API-keys file can hold.
ApiKeyMaps ==
    UNION { [ S -> BOOLEAN ] : S \in SUBSET ApiKeys }

ApiKeysConfig(map) ==
    [ apiKeys |-> [ k \in DOMAIN map |-> KeyConfig(k, map[k]) ] ]

\* What the file at apiKeysPath holds: nothing (there is no file), text
\* that is not JSON, or an ApiKeysConfig.
KeysFileOf(map) == [ kind |-> "json", apiKeys |-> ApiKeysConfig(map).apiKeys ]
KeysFiles ==
    { NoKeysFile, [ kind |-> "invalid", apiKeys |-> << >> ] }
      \cup { KeysFileOf(map) : map \in ApiKeyMaps }

\* A loader that drops the configuration it had when the load fails.
LoadConfig_Forgets(manager, file) ==
    IF file.kind \in { "missing", "invalid" }
    THEN [ threw |-> TRUE, manager |-> [ config |-> [ apiKeys |-> << >> ] ] ]
    ELSE [ threw |-> FALSE, manager |-> [ config |-> [ apiKeys |-> file.apiKeys ] ] ]

\* private loadConfig(): this.config = JSON.parse(readFileSync(this.configPath));
\* when either call throws, 'API keys configuration not found' is thrown
\* and this.config is as before.
LoadConfig(manager, file) ==
    IF file.kind \in { "missing", "invalid" }
    THEN [ threw |-> TRUE, manager |-> manager ]
    ELSE [ threw |-> FALSE, manager |-> [ config |-> [ apiKeys |-> file.apiKeys ] ] ]

\* new ApiKeyManager(configPath): the constructor throws what loadConfig
\* throws, and then there is no instance.
NewApiKeyManager(file) ==
    LET loaded == LoadConfig([ config |-> Undefined ], file)
    IN IF loaded.threw THEN [ threw |-> TRUE, instance |-> Undefined ]
       ELSE [ threw |-> FALSE, instance |-> Some(loaded.manager) ]

\* this.config.apiKeys[apiKey]: the entry of the map, a member inherited
\* from Object.prototype, or undefined.
Lookup(apiKeys, apiKey) ==
    IF apiKey \in DOMAIN apiKeys THEN Some(apiKeys[apiKey])
    ELSE IF apiKey \in InheritedKeys THEN Some([ name |-> "Object" ])
    ELSE Undefined

\* keyConfig?.active
ActiveOf(keyConfig) ==
    IF keyConfig = Undefined THEN Undefined
    ELSE IF "active" \in DOMAIN ValueOf(keyConfig)
         THEN Some(ValueOf(keyConfig).active)
         ELSE Undefined

\* !!value, for a value that is a boolean or undefined
Truthy(o) == o # Undefined /\ ValueOf(o) = TRUE

\* A validation that takes every key of the file, active or not.
ValidateApiKey_AnyEntry(manager, apiKey) ==
    Lookup(manager.config.apiKeys, apiKey) # Undefined

\* public validateApiKey(apiKey): !!keyConfig?.active
ValidateApiKey(manager, apiKey) ==
    Truthy(ActiveOf(Lookup(manager.config.apiKeys, apiKey)))

\* An Error with a status, as the handlers and the validator throw it.
HttpError(status, message, errors) ==
    [ status |-> status, message |-> message, errors |-> errors ]

\* How a call of a security handler ends, with what validateApiKey told
\* it when it asked.
Returned(value, isValid) ==
    [ threw |-> FALSE, value |-> Some(value), error |-> Undefined,
      isValid |-> isValid ]
Thrown(err, isValid) ==
    [ threw |-> TRUE, value |-> Undefined, error |-> Some(err),
      isValid |-> isValid ]

\* A handler without the test for the header.
SecurityHandler_NoHeaderTest(manager, header) ==
    LET isValid == header # Undefined /\ ValidateApiKey(manager, ValueOf(header))
    IN IF isValid THEN Returned(TRUE, Some(isValid))
       ELSE Thrown(HttpError(Some(401), "Invalid or inactive API key", Undefined),
                   Some(isValid))

\* The function createApiKeySecurityHandler(apiKeyManager) returns, called
\* with a request whose x-api-key header is `header`.
SecurityHandler(manager, header) ==
    IF header = Undefined \/ ValueOf(header) = ""
    THEN Thrown(HttpError(Some(401), "API key is required", Undefined), Undefined)
    ELSE LET isValid == ValidateApiKey(manager, ValueOf(header))
         IN IF ~isValid
            THEN Thrown(HttpError(Some(401), "Invalid or inactive API key", Undefined),
                        Some(isValid))
            ELSE Returned(TRUE, Some(isValid))

\* public getKeyInfo(apiKey): this.config.apiKeys[apiKey] ?? null
GetKeyInfo(manager, apiKey) == Lookup(manager.config.apiKeys, apiKey)

\* res.status(401).json({ message, code: 'AUTHENTICATION_FAILED' })
Rejection(message) ==
    [ status |-> 401,
      body |-> [ message |-> message, code |-> Some("AUTHENTICATION_FAILED"),
                 errors |-> Undefined ] ]

\* What a call of a middleware did: the responses it sent, how many times
\* it called next(), and what it left in req.apiKeyInfo.
Rejected(message) ==
    [ responses |-> << Rejection(message) >>, nextCalls |-> 0,
      apiKeyInfo |-> Undefined ]

\* The middleware without the `return` after its responses.
ApiKeyMiddleware_FallsThrough(manager, header) ==
    IF header = Undefined \/ ValueOf(header) = ""
    THEN [ Rejected("API key is required") EXCEPT !.nextCalls = 1 ]
    ELSE IF ~ValidateApiKey(manager, ValueOf(header))
    THEN [ Rejected("Invalid or inactive API key") EXCEPT !.nextCalls = 1 ]
    ELSE [ responses |-> << >>, nextCalls |-> 1,
           apiKeyInfo |-> GetKeyInfo(manager, ValueOf(header)) ]

\* The function createApiKeyMiddleware(apiKeyManager) returns, called with
\* a request whose x-api-key header is `header`.
ApiKeyMiddleware(manager, header) ==
    IF header = Undefined \/ ValueOf(header) = ""
    THEN Rejected("API key is required")
    ELSE IF ~ValidateApiKey(manager, ValueOf(header))
    THEN Rejected("Invalid or inactive API key")
    ELSE LET keyInfo == GetKeyInfo(manager, ValueOf(header))
         IN [ responses |-> << >>, nextCalls |-> 1,
              apiKeyInfo |-> IF keyInfo # Undefined THEN keyInfo ELSE Undefined ]

\* A handler that lets every request through while no keys are configured.
UnconfiguredHandler_Open(header) == Returned(TRUE, Undefined)

\* The handler installed when apiKeyManager is null.
UnconfiguredHandler(header) ==
    Thrown(HttpError(Some(401),
        "API key authentication is not configured. Please set up config/api-keys.json",
        Undefined), Undefined)

\* validateSecurity.handlers.ApiKeyAuth
ApiKeyAuth(manager, header) ==
    IF manager # Undefined THEN SecurityHandler(ValueOf(manager), header)
    ELSE UnconfiguredHandler(header)

----------------------------------------------------------------------------
(* The server: the error-handling middleware *)

Json(status, message, code, errors) ==
    [ status |-> status,
      body |-> [ message |-> message, code |-> code, errors |-> errors ] ]

\* err.message || fallback
MessageOr(err, fallback) == IF err.message # "" THEN err.message ELSE fallback

\* The handler before the authentication codes were added to it.
errorHandlerMiddleware_Plain(err) ==
    [ responses |->
        << Json(IF err.status # Undefined THEN ValueOf(err.status) ELSE 500,
                err.message, Undefined, err.errors) >>,
      nextCalled |-> FALSE ]

\* errorHandlerMiddleware(err, _req, res, _next): what it sends with
\* res.status(...).json(...) and whether it calls next.
errorHandlerMiddleware(err) ==
    [ responses |->
        IF err.status = Some(400) /\ err.errors # Undefined
        THEN << Json(400, "Validation error", Undefined, err.errors) >>
        ELSE IF err.status = Some(401)
        THEN << Json(401, MessageOr(err, "Unauthorized"),
                     Some("AUTHENTICATION_FAILED"), Undefined) >>
        ELSE IF err.status = Some(403)
        THEN << Json(403, MessageOr(err, "Forbidden"),
                     Some("AUTHORIZATION_FAILED"), Undefined) >>
        ELSE << Json(IF err.status # Undefined THEN ValueOf(err.status) ELSE 500,
                     MessageOr(err, "Internal server error"),
                     Undefined, err.errors) >>,
      nextCalled |-> FALSE ]

\* The errors a request can end in: what the validator throws (400 with
\* the list of errors, 404, 405), what a security handler throws (401), and
\* what a controller hands to next(error), with a status or without.
Errors ==
    { HttpError(status, message, errors) :
        status \in { Undefined, Some(400), Some(401), Some(403), Some(404), Some(500) },
        message \in { "", "message" },
        errors \in { Undefined, Some(<< "detail" >>) } }

----------------------------------------------------------------------------
(* The server process *)

Crash(what) ==
    /\ srv' = "crashed"
    /\ last' = [ kind |-> "crash", what |-> what ]

\* npm start: the modules index.ts imports are evaluated in the order of
\* its import statements, then its own statements.
StartServer ==
    /\ srv = "down"
    /\ srv' = "config"
    /\ UNCHANGED << env, keysFile, config, apiKeyManager, loadHist, last >>
    /\ UNCHANGED << genVars, typeVars, setupVars >>

\* config/index.ts: export const config = validateEnv(); what validateEnv
\* throws ends the process.
ImportConfig ==
    /\ srv = "config"
    /\ IF ValidateEnv(env).threw THEN
            Crash("validateEnv") /\ UNCHANGED config
       ELSE /\ config' = ValidateEnv(env).value
            /\ srv' = "middlewares"
            /\ UNCHANGED last
    /\ UNCHANGED << env, keysFile, apiKeyManager, loadHist >>
    /\ UNCHANGED << genVars, typeVars, setupVars >>

\* middlewares/openapi.middleware.ts: try { apiKeyManager = new
\* ApiKeyManager(apiKeysPath) } catch { console.error(...) }
ImportOpenApiMiddleware ==
    /\ srv = "middlewares"
    /\ apiKeyManager' = NewApiKeyManager(keysFile).instance
    /\ loadHist' = IF NewApiKeyManager(keysFile).threw
                   THEN [ atStart |-> "failed", content |-> Undefined ]
                   ELSE [ atStart |-> "loaded", content |-> Some(keysFile) ]
    /\ last' = [ kind |-> "console",
                 line |-> IF NewApiKeyManager(keysFile).threw
                          THEN "API key authentication not configured"
                          ELSE "API Key authentication enabled" ]
    /\ srv' = "spec"
    /\ UNCHANGED << env, keysFile, config >>
    /\ UNCHANGED << genVars, typeVars, setupVars >>

\* index.ts: readFileSync(apiSpecPath, 'utf8') and YAML.parse(apiSpecContent)
LoadApiSpec ==
    /\ srv = "spec"
    /\ IF ReadFileThrows(doc) THEN Crash("readFileSync")
       ELSE IF YamlLoadThrows(doc) THEN Crash("YAML.parse")
       ELSE srv' = "app" /\ UNCHANGED last
    /\ UNCHANGED << env, keysFile, config, apiKeyManager, loadHist >>
    /\ UNCHANGED << genVars, typeVars, setupVars >>

\* index.ts: the app.use(...) calls and app.listen(config.PORT, () =>
\* logger.info(`Server is running on port ${config.PORT}`))
Listen ==
    /\ srv = "app"
    /\ srv' = "listening"
    /\ last' = [ kind |-> "listen",
                 port |-> ValueOf(config).PORT,
                 console |-> LoggerOutput(ValueOf(config), "info") ]
    /\ UNCHANGED << env, keysFile, config, apiKeyManager, loadHist >>
    /\ UNCHANGED << genVars, typeVars, setupVars >>

\* A request to an operation of the document, with the ApiKeyAuth
\* security requirement or without: the validator calls the security
\* handler, what the handler throws goes to the error-handling middleware,
\* and otherwise the controller answers.
Request ==
    /\ srv = "listening"
    /\ \E secured \in BOOLEAN, header \in { Undefined } \cup { Some(t) : t \in KeyTexts } :
          LET auth == IF secured THEN ApiKeyAuth(apiKeyManager, header)
                      ELSE Returned(TRUE, Undefined)
              handled == IF auth.threw
                         THEN errorHandlerMiddleware(ValueOf(auth.error))
                         ELSE [ responses |-> << Json(200, "ok", Undefined, Undefined) >>,
                                nextCalled |-> FALSE ]
          IN last' = [ kind |-> "request",
                       secured |-> secured,
                       header |-> header,
                       auth |-> auth,
                       responses |-> handled.responses,
                       nextCalled |-> handled.nextCalled ]
    /\ UNCHANGED << env, keysFile, srv, config, apiKeyManager, loadHist >>
    /\ UNCHANGED << genVars, typeVars, setupVars >>

\* A request that ends in an error the validator or the controller
\* raised: next(err) reaches the error-handling middleware.
RequestFails ==
    /\ srv = "listening"
    /\ \E err \in Errors :
          last' = [ kind |-> "error",
                    error |-> err,
                    responses |-> errorHandlerMiddleware(err).responses,
                    nextCalled |-> errorHandlerMiddleware(err).nextCalled ]
    /\ UNCHANGED << env, keysFile, srv, config, apiKeyManager, loadHist >>
    /\ UNCHANGED << genVars, typeVars, setupVars >>

\* A request to a route behind createApiKeyMiddleware(apiKeyManager), set
\* up by hand as the README shows.
ProtectedRequest ==
    /\ srv = "listening"
    /\ apiKeyManager # Undefined
    /\ \E header \in { Undefined } \cup { Some(t) : t \in KeyTexts } :
          LET did == ApiKeyMiddleware(ValueOf(apiKeyManager), header)
          IN last' = [ kind |-> "protected",
                       header |-> header,
                       responses |-> did.responses,
                       nextCalls |-> did.nextCalls,
                       apiKeyInfo |-> did.apiKeyInfo ]
    /\ UNCHANGED << env, keysFile, srv, config, apiKeyManager, loadHist >>
    /\ UNCHANGED << genVars, typeVars, setupVars >>

\* public reloadConfig(), called as from the README's admin endpoint
ReloadConfig ==
    /\ srv = "listening"
    /\ apiKeyManager # Undefined
    /\ LET loaded == LoadConfig(ValueOf(apiKeyManager), keysFile)
       IN /\ apiKeyManager' = Some(loaded.manager)
          /\ loadHist' = IF loaded.threw THEN loadHist
                         ELSE [ loadHist EXCEPT !.content = Some(keysFile) ]
          /\ last' = [ kind |-> "reload", threw |-> loaded.threw ]
    /\ UNCHANGED << env, keysFile, srv, config >>
    /\ UNCHANGED << genVars, typeVars, setupVars >>

\* Somebody writes, rewrites or removes the API-keys file.
EditKeysFile ==
    /\ keysFile' \in KeysFiles \ { keysFile }
    /\ UNCHANGED << env, srv, config, apiKeyManager, loadHist, last >>
    /\ UNCHANGED << genVars, typeVars, setupVars >>

\* Code of the server calls logger.log / debug / info / warn / error.
LoggerCall ==
    /\ srv = "listening"
    /\ \E method \in LoggerMethods :
          last' = [ kind |-> "logger",
                    method |-> method,
                    console |-> LoggerOutput(ValueOf(config), method) ]
    /\ UNCHANGED << env, keysFile, srv, config, apiKeyManager, loadHist >>
    /\ UNCHANGED << genVars, typeVars, setupVars >>

\* The process ends; its memory goes with it.
StopServer ==
    /\ srv \in { "listening", "crashed" }
    /\ srv' = "down"
    /\ config' = Undefined
    /\ apiKeyManager' = Undefined
    /\ loadHist' = NoLoads
    /\ last' = NoEvent
    /\ UNCHANGED << env, keysFile >>
    /\ UNCHANGED << genVars, typeVars, setupVars >>

\* The documents the server is started on.
ServerDocuments ==
    { Document("ok", << Entry(<< "/users", "get" >>, << "userController" >>, "getUsers") >>),
      Document("unreadable", << >>),
      Document("malformed", << >>) }

\* The environments the server is started in while the API keys are at
\* issue: nothing set, production on a port of its own, and a port that
\* does not validate.
ServerEnvironments ==
    { NoEnv,
      [ PORT |-> Some(<< "8", "0", "8", "0", "a", "b", "c" >>),
        NODE_ENV |-> Some("production") ],
      [ PORT |-> Some(<< "0" >>), NODE_ENV |-> Undefined ] }

\* The script is not part of the runs of the server.
ScriptAside ==
    /\ doc \in ServerDocuments
    /\ dirExists = TRUE
    /\ files = << >>
    /\ InitRun

InitServer ==
    /\ ScriptAside
    /\ env \in ServerEnvironments
    /\ keysFile \in KeysFiles
    /\ NoProcess
    /\ TypesAside
    /\ SetupAside

NextServer ==
    \/ StartServer \/ ImportConfig \/ ImportOpenApiMiddleware \/ LoadApiSpec
    \/ Listen \/ Request \/ RequestFails \/ ProtectedRequest \/ ReloadConfig
    \/ EditKeysFile
    \/ LoggerCall \/ StopServer

SpecServer == InitServer /\ [][NextServer]_vars

----------------------------------------------------------------------------
(* The server started in every environment *)

InitEnv ==
    /\ ScriptAside
    /\ env \in Environments
    /\ keysFile \in { NoKeysFile, KeysFileOf([ k \in { "key-a" } |-> TRUE ]) }
    /\ NoProcess
    /\ TypesAside
    /\ SetupAside

NextEnv ==
    \/ StartServer \/ ImportConfig \/ ImportOpenApiMiddleware \/ LoadApiSpec
    \/ Listen \/ LoggerCall \/ StopServer

SpecEnv == InitEnv /\ [][NextEnv]_vars

----------------------------------------------------------------------------
(* The server: the application and its middleware *)

Methods == { "GET", "POST" }

\* One entry of the application's stack: app.use(path, handler) matches
\* every method and every path under `path`, app.get(path, handler) the
\* method GET and the path itself; a handler of four arguments is called
\* for errors only.  A path is the sequence of its segments.
Layer(name, handles, methods, path, exact) ==
    [ name |-> name, handles |-> handles, methods |-> methods,
      path |-> path, exact |-> exact ]

\* The error handler registered before the validator.
app_ErrorHandlerFirst ==
    << Layer("helmet", "request", Methods, << >>, FALSE),
       Layer("cors", "request", Methods, << >>, FALSE),
       Layer("express.json", "request", Methods, << >>, FALSE),
       Layer("express.urlencoded", "request", Methods, << >>, FALSE),
       Layer("root", "request", { "GET" }, << >>, TRUE),
       Layer("api-docs", "request", Methods, << "api-docs" >>, FALSE),
       Layer("errorHandler", "error", Methods, << >>, FALSE),
       Layer("validator", "request", Methods, << >>, FALSE) >>

\* const app = express() and the app.use / app.get calls, in their order
app ==
    << Layer("helmet", "request", Methods, << >>, FALSE),
       Layer("cors", "request", Methods, << >>, FALSE),
       Layer("express.json", "request", Methods, << >>, FALSE),
       Layer("express.urlencoded", "request", Methods, << >>, FALSE),
       Layer("root", "request", { "GET" }, << >>, TRUE),
       Layer("api-docs", "request", Methods, << "api-docs" >>, FALSE),
       Layer("validator", "request", Methods, << >>, FALSE),
       Layer("errorHandler", "error", Methods, << >>, FALSE) >>

IsPrefix(prefix, path) ==
    Len(prefix) <= Len(path) /\ SubSeq(path, 1, Len(prefix)) = prefix

Matches(layer, req) ==
    /\ req.method \in layer.methods
    /\ IF layer.exact THEN req.path = layer.path ELSE IsPrefix(layer.path, req.path)

\* What a layer does with a request: it calls next(), it sends a response,
\* or it calls next(err) or throws (`source` is the code that raised err).
Pass == [ kind |-> "next", response |-> Undefined, error |-> Undefined,
          source |-> Undefined ]
Respond(response) ==
    [ kind |-> "respond", response |-> Some(response), error |-> Undefined,
      source |-> Undefined ]
Raise(source, err) ==
    [ kind |-> "error", response |-> Undefined, error |-> Some(err),
      source |-> Some(source) ]

\* A response that is not the error handler's, reduced to its status and text.
Sent(status, text) == Json(status, text, Undefined, Undefined)

\* The operations of the template's API: GET /health, open, and GET
\* /users, behind ApiKeyAuth.
ApiPaths == { << "health" >>, << "users" >> }
Secured(req) == req.path = << "users" >>

\* The middleware createOpenApiValidatorMiddleware(apiSpec) returns: it
\* looks the route up in the document, calls the security handler of a
\* secured operation, validates the request and calls the controller.
Validator(req, manager) ==
    IF req.path \notin ApiPaths
    THEN Raise("validator", HttpError(Some(404), "not found", Undefined))
    ELSE IF req.method # "GET"
    THEN Raise("validator", HttpError(Some(405), "method not allowed", Undefined))
    ELSE LET auth == IF Secured(req) THEN ApiKeyAuth(manager, req.header)
                     ELSE Returned(TRUE, Undefined)
         IN IF auth.threw THEN Raise("security handler", ValueOf(auth.error))
            ELSE IF req.fate = "invalid"
            THEN Raise("validator",
                       HttpError(Some(400), "request is not valid", Some(<< "detail" >>)))
            ELSE IF req.fate = "controller fails"
            THEN Raise("controller", HttpError(Undefined, "message", Undefined))
            ELSE Respond(Sent(200, "ok"))

\* The handler of a layer, called with the request and, for the error
\* handler, the error.
Invoke(layer, req, err, manager) ==
    CASE layer.name = "express.json" ->
            IF req.body = "malformed"
            THEN Raise("express.json", HttpError(Some(400), "Unexpected token", Undefined))
            ELSE Pass
      [] layer.name = "root" -> Respond(Sent(200, "hello world"))
      [] layer.name = "api-docs" -> Respond(Sent(200, "API Documentation"))
      [] layer.name = "validator" -> Validator(req, manager)
      [] layer.name = "errorHandler" ->
            LET did == errorHandlerMiddleware(ValueOf(err))
            IN IF did.nextCalled THEN Raise("errorHandler", ValueOf(err))
               ELSE Respond(did.responses[1])
      [] OTHER -> Pass

\* Express walks the stack from `i` on: a layer that does not match the
\* request is skipped, and so is a request handler while there is an error
\* and an error handler while there is none.  When the stack is used up
\* Express answers by itself: 404, or the error's status or 500.
RECURSIVE Walk(_, _, _, _, _)
Walk(stack, i, req, manager, so) ==
    IF i > Len(stack)
    THEN [ so EXCEPT !.answer =
             [ by |-> "finalhandler",
               response |->
                 IF so.error = Undefined THEN Sent(404, "Cannot " \o req.method)
                 ELSE Sent(IF ValueOf(so.error).status # Undefined
                           THEN ValueOf(ValueOf(so.error).status) ELSE 500,
                           "Error") ] ]
    ELSE LET layer == stack[i]
             called == /\ Matches(layer, req)
                       /\ (layer.handles = "error") = (so.error # Undefined)
         IN IF ~called THEN Walk(stack, i + 1, req, manager, so)
            ELSE LET did == Invoke(layer, req, so.error, manager)
                     seen == [ so EXCEPT !.visited = Append(@, layer.name) ]
                 IN CASE did.kind = "respond" ->
                            [ seen EXCEPT !.answer =
                                [ by |-> layer.name, response |-> ValueOf(did.response) ] ]
                      [] did.kind = "error" ->
                            Walk(stack, i + 1, req, manager,
                                 [ seen EXCEPT !.error = did.error,
                                               !.raised = Append(@,
                                                   [ source |-> ValueOf(did.source),
                                                     error |-> ValueOf(did.error) ]) ])
                      [] OTHER -> Walk(stack, i + 1, req, manager, seen)

\* The requests sent to the application: what the validator and the
\* controller make of a request matters for a request that gets to them.
Requests ==
    { req \in [ method : Methods,
                path : { << >>, << "api-docs" >>, << "api-docs", "swagger-ui.css" >>,
                         << "health" >>, << "users" >>, << "nowhere" >> },
                header : { Undefined, Some("key-a"), Some("no-such-key") },
                body : { "none", "malformed" },
                fate : { "ok", "invalid", "controller fails" } ] :
        req.fate # "ok" => req.path \in ApiPaths /\ req.method = "GET" }

\* A request comes in and Express hands it down the stack.
Dispatch ==
    /\ srv = "listening"
    /\ \E req \in Requests :
          LET walked == Walk(app, 1, req, apiKeyManager,
                             [ visited |-> << >>, raised |-> << >>,
                               error |-> Undefined,
                               answer |-> [ by |-> "nobody", response |-> Sent(0, "") ] ])
          IN last' = [ kind |-> "dispatch",
                       request |-> req,
                       visited |-> walked.visited,
                       raised |-> walked.raised,
                       answer |-> walked.answer ]
    /\ UNCHANGED << env, keysFile, srv, config, apiKeyManager, loadHist >>
    /\ UNCHANGED << genVars, typeVars, setupVars >>

InitApp ==
    /\ ScriptAside
    /\ doc.kind = "ok"
    /\ env = NoEnv
    /\ keysFile \in { NoKeysFile, KeysFileOf([ k \in { "key-a" } |-> TRUE ]),
                      KeysFileOf([ k \in { "key-a" } |-> FALSE ]) }
    /\ NoProcess
    /\ TypesAside
    /\ SetupAside

NextApp ==
    \/ StartServer \/ ImportConfig \/ ImportOpenApiMiddleware \/ LoadApiSpec
    \/ Listen \/ Dispatch \/ StopServer

SpecApp == InitApp /\ [][NextApp]_vars

ServerTypeOK ==
    /\ srv \in { "down", "config", "middlewares", "spec", "app", "listening", "crashed" }
    /\ config # Undefined =>
          /\ ValueOf(config).PORT \in 1..65535
          /\ ValueOf(config).NODE_ENV \in NodeEnvs
    /\ loadHist.atStart \in { "none", "loaded", "failed" }

----------------------------------------------------------------------------
(* The type projections *)

\* A type: a named shape, or an object type with its properties, each
\* required or optional (`key?:`).
Shape(name) == [ name |-> name, props |-> << >> ]
Object(props) == [ name |-> "object", props |-> props ]
Property(optional, type) == [ optional |-> optional, type |-> type ]

Never == Shape("never")
\* Record<string, never>
EmptyObject == Shape("Record<string, never>")

\* What the schema compiler writes for the path parameters of an
\* operation: `path?: never` or no key when the operation declares none,
\* `path: { id: string }` when it declares some (a path parameter is always
\* required).
PathProperties ==
    { Undefined, Some(Property(TRUE, Never)),
      Some(Property(FALSE, Shape("{ id: string }"))) }

\* And for its query parameters: `query?: never` or no key when it declares
\* none, `query?: { limit?: number; offset?: number }` when every parameter
\* it declares is optional, `query: { q: string }` when one is required.
QueryProperties ==
    { Undefined, Some(Property(TRUE, Never)),
      Some(Property(TRUE, Shape("{ limit?: number; offset?: number }"))),
      Some(Property(FALSE, Shape("{ q: string }"))) }

\* What the schema compiler writes for a body: `content: { '<media type>':
\* <shape> }`, and `content?: never` for a response without one.
Content(mediaType, shape) ==
    Object([ content |-> Property(FALSE, Object(mediaType :> Property(FALSE, shape))) ])

NoContent == Object([ content |-> Property(TRUE, Never) ])

\* What it writes for the request body of an operation: no key or
\* `requestBody?: never` when the operation declares none, `requestBody:
\* {...}` when the document marks the body `required: true`, `requestBody?:
\* {...}` when it does not (the OpenAPI default), and a body that is not
\* JSON.
RequestBodyProperties ==
    { Undefined, Some(Property(TRUE, Never)),
      Some(Property(FALSE, Content("application/json", Shape("UserCreate")))),
      Some(Property(TRUE, Content("application/json", Shape("UserCreate")))),
      Some(Property(FALSE, Content("multipart/form-data", Shape("Upload")))) }

\* The status codes an operation of the catalog may declare a response for.
DeclaredStatuses == { 200, 204 }

\* What it writes at one status code: nothing when the operation declares
\* no response there, `content?: never` for a response without a body, a
\* JSON body, a body that is not JSON.
ResponseTypes ==
    { Undefined, Some(NoContent),
      Some(Content("application/json", Shape("{ data?: User[]; total?: number }"))),
      Some(Content("text/plain", Shape("string"))) }

\* responses: { 200: {...}; 204: {...} }
ResponsesTypes ==
    { Object([ s \in { c \in DeclaredStatuses : at[c] # Undefined } |->
                 Property(FALSE, ValueOf(at[s])) ]) :
        at \in [ DeclaredStatuses -> ResponseTypes ] }

\* operations[T]: { parameters: { path..., query... }; requestBody...;
\* responses: {...} }
OperationType(path, query, requestBody, responses) ==
    LET keys == { k \in { "path", "query" } :
                    IF k = "path" THEN path # Undefined ELSE query # Undefined }
        parameters == [ k \in keys |->
                          IF k = "path" THEN ValueOf(path) ELSE ValueOf(query) ]
        top == { "parameters", "responses" }
                  \cup IF requestBody # Undefined THEN { "requestBody" } ELSE { }
    IN Object([ k \in top |->
                  CASE k = "parameters" -> Property(FALSE, Object(parameters))
                    [] k = "responses" -> Property(FALSE, responses)
                    [] OTHER -> ValueOf(requestBody) ])

OperationTypes ==
    { OperationType(path, query, requestBody, responses) :
        path \in PathProperties, query \in QueryProperties,
        requestBody \in RequestBodyProperties, responses \in ResponsesTypes }

OperationIdentifiers == { "getUsers", "getUserById" }

\* The entry the repository's codebase map shows: getUsers, with optional
\* query parameters and a JSON body at 200.
DocumentedOperation ==
    OperationType(Undefined,
                  Some(Property(TRUE, Shape("{ limit?: number; offset?: number }"))),
                  Undefined,
                  Object([ s \in { 200 } |->
                             Property(FALSE, Content("application/json",
                                        Shape("{ data?: User[]; total?: number }"))) ]))

\* export interface operations { getUsers: {...}; getUserById: {...} }:
\* one entry is any operation type, the other the documented one.
Schemas ==
    { [ operations |-> [ id \in OperationIdentifiers |->
                           IF id = varied THEN type ELSE DocumentedOperation ] ] :
        varied \in OperationIdentifiers, type \in OperationTypes }

\* `type` extends { [key]: ... }: the property is there and is not optional.
HasRequired(type, key) ==
    key \in DOMAIN type.props /\ ~type.props[key].optional

\* type extends { [outer]: { [inner]: infer X } } ? X : fallback
InferNested(type, outer, inner, fallback) ==
    IF /\ HasRequired(type, outer)
       /\ HasRequired(type.props[outer].type, inner)
    THEN type.props[outer].type.props[inner].type
    ELSE fallback

\* type extends { [k1]: { [k2]: ... { [kn]: infer X } } } ? X : fallback
RECURSIVE InferPath(_, _, _)
InferPath(type, keys, fallback) ==
    IF keys = << >> THEN type
    ELSE IF HasRequired(type, Head(keys))
         THEN InferPath(type.props[Head(keys)].type, Tail(keys), fallback)
         ELSE fallback

\* PathParams<T> = operations[T] extends { parameters: { path: infer P } }
\*                   ? P : Record<string, never>
PathParams(operations, T) ==
    InferNested(operations[T], "parameters", "path", EmptyObject)

\* QueryParams<T> = operations[T] extends { parameters: { query: infer Q } }
\*                    ? Q : Record<string, never>
QueryParams(operations, T) ==
    InferNested(operations[T], "parameters", "query", EmptyObject)

\* RequestBody<T> = operations[T] extends
\*   { requestBody: { content: { 'application/json': infer B } } } ? B : undefined
RequestBody(operations, T) ==
    InferPath(operations[T], << "requestBody", "content", "application/json" >>,
              Shape("undefined"))

\* Status extends number = 200
DefaultStatus == 200

\* The status codes a controller asks ResponseBody for.
StatusArguments == { 200, 204, 404 }

\* ResponseBody that looks at the 200 response whatever Status is.
ResponseBody_Always200(operations, T, Status) ==
    InferPath(operations[T], << "responses", 200, "content", "application/json" >>,
              Shape("void"))

\* ResponseBody<T, Status> = operations[T] extends { responses: { [K in
\*   Status]: { content: { 'application/json': infer R } } } } ? R : void
ResponseBody(operations, T, Status) ==
    InferPath(operations[T], << "responses", Status, "content", "application/json" >>,
              Shape("void"))

\* The compiler resolves PathParams<T>, QueryParams<T>, RequestBody<T> or
\* ResponseBody<T, Status> (Status given or left to its default) where a
\* controller uses it.
ResolveProjection ==
    /\ \E T \in DOMAIN schema.operations :
          \/ resolved' = [ kind |-> "PathParams", T |-> T,
                           type |-> PathParams(schema.operations, T) ]
          \/ resolved' = [ kind |-> "QueryParams", T |-> T,
                           type |-> QueryParams(schema.operations, T) ]
          \/ resolved' = [ kind |-> "RequestBody", T |-> T,
                           type |-> RequestBody(schema.operations, T) ]
          \/ \E given \in { Undefined } \cup { Some(s) : s \in StatusArguments } :
                LET Status == IF given = Undefined THEN DefaultStatus
                              ELSE ValueOf(given)
                IN resolved' = [ kind |-> "ResponseBody", T |-> T, Status |-> given,
                                 type |-> ResponseBody(schema.operations, T, Status) ]
    /\ UNCHANGED schema
    /\ UNCHANGED << genVars, serverVars, setupVars >>

InitTypes ==
    /\ ScriptAside
    /\ doc.kind = "ok"
    /\ ServerAside
    /\ schema \in Schemas
    /\ resolved = NoProjection
    /\ SetupAside

NextTypes == ResolveProjection

SpecTypes == InitTypes /\ [][NextTypes]_vars

----------------------------------------------------------------------------
(* The development setup script *)

MAX_ATTEMPTS == 30

\* The process ids `$!` may be.
ProcessIds == { 4711 }

\* A loop test that lets one more attempt through.
MoreAttempts_Inclusive == ATTEMPT <= MAX_ATTEMPTS

\* [ $ATTEMPT -lt $MAX_ATTEMPTS ]
MoreAttempts == ATTEMPT < MAX_ATTEMPTS

\* kill -0 $DEV_SERVER_PID: the process is there.
Running == devServer \in { "starting", "listening" }

\* A script without the trap.
cleanup_NoTrap == UNCHANGED << signalled, devServer >>

\* cleanup(), run by `trap cleanup EXIT`: kill $DEV_SERVER_PID 2>/dev/null
\* || true when the variable is set.  The signal ends the process if it is
\* still there.
cleanup ==
    IF DEV_SERVER_PID # Undefined
    THEN /\ signalled' = Append(signalled, ValueOf(DEV_SERVER_PID))
         /\ devServer' = IF Running THEN "dead" ELSE devServer
    ELSE UNCHANGED << signalled, devServer >>

\* exit <code>, or a command that fails under `set -e`: the script ends and
\* the EXIT trap runs.
ExitScript(code) ==
    /\ step' = "exited"
    /\ setupExit' = Some(code)
    /\ cleanup

\* print_error and the other output of a step that fails, then exit 1
Fail(message) ==
    /\ printed' = Append(printed, message)
    /\ ExitScript(1)

\* The step is done and the script goes on with the next one.
GoOn(next) ==
    /\ step' = next
    /\ UNCHANGED << setupExit, signalled, devServer >>

loopVars == << DEV_SERVER_PID, ATTEMPT, SERVER_READY, polls >>

\* Step 1: if [ ! -f "api/openapi.yaml" ] ... exit 1
ValidateSpec ==
    /\ step = "validate"
    /\ \E found \in BOOLEAN :
          IF found THEN GoOn("dependencies") /\ UNCHANGED printed
          ELSE Fail("OpenAPI specification not found!")
    /\ UNCHANGED loopVars
    /\ UNCHANGED << genVars, serverVars, typeVars >>

\* Step 2: yarn install when node_modules is missing or older than yarn.lock
InstallDependencies ==
    /\ step = "dependencies"
    /\ \E upToDate \in BOOLEAN, installed \in BOOLEAN :
          IF upToDate \/ installed THEN GoOn("apikeys") /\ UNCHANGED printed
          ELSE Fail("Failed to install dependencies")
    /\ UNCHANGED loopVars
    /\ UNCHANGED << genVars, serverVars, typeVars >>

\* The file step 3 writes.
DevelopmentKeys == KeysFileOf([ k \in { "dev-local-key-12345" } |-> TRUE ])

\* Step 3: mkdir -p config, and config/api-keys.json with the development
\* key when there is no such file and the example file is there.  A
\* command that fails ends the script (set -e).
SetupApiKeys ==
    /\ step = "apikeys"
    /\ \E example \in BOOLEAN, written \in BOOLEAN :
          IF keysFile.kind # "missing" \/ ~example
          THEN GoOn("envfile") /\ UNCHANGED << printed, keysFile >>
          ELSE IF written
          THEN GoOn("envfile") /\ keysFile' = DevelopmentKeys /\ UNCHANGED printed
          ELSE ExitScript(1) /\ UNCHANGED << printed, keysFile >>
    /\ UNCHANGED loopVars
    /\ UNCHANGED << env, srv, config, apiKeyManager, loadHist, last >>
    /\ UNCHANGED << genVars, typeVars >>

\* Step 4: cp .env.example .env when there is no .env
SetupEnvFile ==
    /\ step = "envfile"
    /\ \E copied \in BOOLEAN :
          IF copied THEN GoOn("gen-types") ELSE ExitScript(1)
    /\ UNCHANGED printed
    /\ UNCHANGED loopVars
    /\ UNCHANGED << genVars, serverVars, typeVars >>

\* Step 4a: if yarn gen-types ... else exit 1
GenerateTypes ==
    /\ step = "gen-types"
    /\ \E generated \in BOOLEAN :
          IF generated THEN GoOn("gen-controllers") /\ UNCHANGED printed
          ELSE Fail("Failed to generate TypeScript types")
    /\ UNCHANGED loopVars
    /\ UNCHANGED << genVars, serverVars, typeVars >>

\* Step 4b: if yarn gen-controllers ... else exit 1.  What the run of the
\* generator does to src/controllers is Spec; here it is its exit status.
GenerateControllers ==
    /\ step = "gen-controllers"
    /\ \E generated \in BOOLEAN :
          IF generated THEN GoOn("port") /\ UNCHANGED printed
          ELSE Fail("Failed to generate controllers")
    /\ UNCHANGED loopVars
    /\ UNCHANGED << genVars, serverVars, typeVars >>

\* Step 5: lsof on port 3000; when it is taken the user is asked whether
\* to continue, and anything but y ends the script with exit 0.
CheckPort ==
    /\ step = "port"
    /\ \E inUse \in BOOLEAN, reply \in { "y", "n" } :
          IF inUse /\ reply # "y" THEN ExitScript(0) ELSE GoOn("start")
    /\ UNCHANGED printed
    /\ UNCHANGED loopVars
    /\ UNCHANGED << genVars, serverVars, typeVars >>

\* LOG_FILE=$(mktemp); yarn dev > "$LOG_FILE" 2>&1 &; DEV_SERVER_PID=$!;
\* MAX_ATTEMPTS=30; ATTEMPT=0; SERVER_READY=false.  A mktemp that fails
\* ends the script before the server is started.
StartDevServer ==
    /\ step = "start"
    /\ \/ /\ ExitScript(1)
          /\ UNCHANGED loopVars
       \/ \E pid \in ProcessIds :
             /\ DEV_SERVER_PID' = Some(pid)
             /\ devServer' = "starting"
             /\ ATTEMPT' = 0
             /\ SERVER_READY' = FALSE
             /\ step' = "poll"
             /\ UNCHANGED << setupExit, signalled, polls >>
    /\ UNCHANGED printed
    /\ UNCHANGED << genVars, serverVars, typeVars >>

\* The dev server listens on port 3000.
DevServerListens ==
    /\ step \notin { "off", "exited" }
    /\ devServer = "starting"
    /\ devServer' = "listening"
    /\ UNCHANGED << step, setupExit, signalled, printed, loopVars >>
    /\ UNCHANGED << genVars, serverVars, typeVars >>

\* The process yarn dev started ends by itself.
DevServerDies ==
    /\ step \notin { "off", "exited" }
    /\ Running
    /\ devServer' = "dead"
    /\ UNCHANGED << step, setupExit, signalled, printed, loopVars >>
    /\ UNCHANGED << genVars, serverVars, typeVars >>

\* while [ $ATTEMPT -lt $MAX_ATTEMPTS ]; do if curl -s
\* http://localhost:3000/health ...; then SERVER_READY=true; break; fi.
\* Whether curl gets an answer is up to what listens on the port: the dev
\* server once it is up, or the process that held the port at step 5.
Poll ==
    /\ step = "poll"
    /\ IF MoreAttempts
       THEN \E answered \in BOOLEAN :
               /\ polls' = Append(polls, answered)
               /\ SERVER_READY' = IF answered THEN TRUE ELSE SERVER_READY
               /\ step' = IF answered THEN "report" ELSE "alive"
       ELSE /\ step' = "report"
            /\ UNCHANGED << polls, SERVER_READY >>
    /\ UNCHANGED << DEV_SERVER_PID, ATTEMPT, setupExit, signalled, devServer, printed >>
    /\ UNCHANGED << genVars, serverVars, typeVars >>

\* if ! kill -0 $DEV_SERVER_PID; then print_error ...; tail; rm; exit 1; fi
\* ATTEMPT=$((ATTEMPT + 1)); sleep 1
CheckProcess ==
    /\ step = "alive"
    /\ IF ~Running
       THEN Fail("Server process died unexpectedly") /\ UNCHANGED ATTEMPT
       ELSE /\ ATTEMPT' = ATTEMPT + 1
            /\ GoOn("poll")
            /\ UNCHANGED printed
    /\ UNCHANGED << DEV_SERVER_PID, SERVER_READY, polls >>
    /\ UNCHANGED << genVars, serverVars, typeVars >>

\* if [ "$SERVER_READY" = true ]; then print_success ... else print_error
\* ...; exit 1; fi
ReportReadiness ==
    /\ step = "report"
    /\ IF SERVER_READY
       THEN /\ printed' = Append(printed, "Server is ready and responding")
            /\ GoOn("rm")
       ELSE Fail("Server failed to start within timeout")
    /\ UNCHANGED loopVars
    /\ UNCHANGED << genVars, serverVars, typeVars >>

\* rm "$LOG_FILE"
RemoveLogFile ==
    /\ step = "rm"
    /\ \E removed \in BOOLEAN :
          IF removed THEN GoOn("browser") ELSE ExitScript(1)
    /\ UNCHANGED printed
    /\ UNCHANGED loopVars
    /\ UNCHANGED << genVars, serverVars, typeVars >>

\* Step 7: xdg-open in the background, or open, or start, which may fail,
\* or none of them; then the closing messages.
OpenBrowser ==
    /\ step = "browser"
    /\ \E opened \in BOOLEAN :
          IF opened THEN GoOn("wait") ELSE ExitScript(1)
    /\ UNCHANGED printed
    /\ UNCHANGED loopVars
    /\ UNCHANGED << genVars, serverVars, typeVars >>

\* wait $DEV_SERVER_PID returns when the process has ended, and the script
\* ends with it.
WaitForServer ==
    /\ step = "wait"
    /\ ~Running
    /\ \E code \in { 0, 1 } : ExitScript(code)
    /\ UNCHANGED printed
    /\ UNCHANGED loopVars
    /\ UNCHANGED << genVars, serverVars, typeVars >>

InitSetup ==
    /\ ScriptAside
    /\ doc.kind = "ok"
    /\ env = NoEnv
    /\ keysFile \in { NoKeysFile, KeysFileOf([ k \in { "key-a" } |-> TRUE ]) }
    /\ NoProcess
    /\ TypesAside
    /\ step = "validate"
    /\ DEV_SERVER_PID = Undefined
    /\ ATTEMPT = 0
    /\ SERVER_READY = FALSE
    /\ devServer = "none"
    /\ polls = << >>
    /\ printed = << >>
    /\ setupExit = Undefined
    /\ signalled = << >>

NextSetup ==
    \/ ValidateSpec \/ InstallDependencies \/ SetupApiKeys \/ SetupEnvFile
    \/ GenerateTypes \/ GenerateControllers \/ CheckPort \/ StartDevServer
    \/ DevServerListens \/ DevServerDies \/ Poll \/ CheckProcess
    \/ ReportReadiness \/ RemoveLogFile \/ OpenBrowser \/ WaitForServer

SpecSetup == InitSetup /\ [][NextSetup]_vars

----------------------------------------------------------------------------
(* What the properties speak about *)

InRun == pc # "idle"
Finished == pc \in {"done", "failed"}

\* The files the run has created so far.
Created == DOMAIN files \ DOMAIN runStart.files

\* Every file that existed when the run started is there with the same bytes.
StartFilesIntact ==
    \A p \in DOMAIN runStart.files :
        p \in DOMAIN files /\ files[p] = runStart.files[p]

\* The qualifying operations of a document that declare handler `name`,
\* read off the document in its order.
GroupOperations(entries, name) ==
    LET InGroup(e) ==
            e.handler # NoHandler /\ e.operationId # NoString /\ e.handler = name
    IN SelectSeq(entries, InGroup)

\* The handler names that have a qualifying operation.
DocGroups(entries) ==
    { entries[i].handler : i \in { j \in 1..Len(entries) :
        entries[j].handler # NoHandler /\ entries[j].operationId # NoString } }

\* The file of the i-th group existed when the group was reached: it was
\* there when the run started, or an earlier group of the run has the same
\* file.
ExistedWhenReached(i) ==
    \/ FilePath(controllers[i].name) \in DOMAIN runStart.files
    \/ \E j \in 1..(i - 1) :
          FilePath(controllers[j].name) = FilePath(controllers[i].name)

\* `content` is the whole generated file of group `name`: its header and
\* one stub for each of `operations`, in order.
WhollyWritten(content, name, operations) ==
    /\ content.kind = "generated"
    /\ content.header = name
    /\ Len(content.stubs) = Len(operations)
    /\ \A k \in 1..Len(operations) :
          /\ content.stubs[k].export = operations[k].operationId
          /\ content.stubs[k].route = << ToUpperCase(operations[k].method),
                                         operations[k].path >>

----------------------------------------------------------------------------
(* C1: the generator never clobbers *)

\* C1. Generate-once, never clobber: at every point of every run, whatever
\* the developer changed before it, each file that existed when the run
\* started is still there with the same content; the run only adds files.
C1_NeverClobber ==
    InRun => StartFilesIntact

\* A later run, after the developer edited, finished having skipped, for a
\* group of the document, a file that existed and having created another.
C1_Witness ==
    /\ pc = "done"
    /\ prev.result = "ok"
    /\ since.kind = "other"
    /\ \E i \in 1..Len(controllers) :
          /\ FilePath(controllers[i].name) \in DOMAIN runStart.files
          /\ runStart.files[FilePath(controllers[i].name)] = HandWritten
    /\ Created # {}

----------------------------------------------------------------------------
(* C2: idempotence *)

NoGenerated == \A k \in 1..Len(log) : log[k].kind # "Generated"

\* Every group of the run has its skip message, in the order of the groups.
AllSkipped ==
    /\ Len(Marks) = Len(controllers)
    /\ \A i \in 1..Len(controllers) :
          Marks[i] = SkipMessage(FileName(controllers[i].name))

----------------------------------------------------------------------------
(* C3: monotonicity *)

\* The handler names of the run lead to different files.
DistinctFiles ==
    \A i, j \in 1..Len(controllers) :
        FilePath(controllers[i].name) = FilePath(controllers[j].name) => i = j

\* C3 as stated, for two runs that both complete and a document whose
\* handler names lead to different files: when the document of the second
\* run is that of the first plus one new handler group, the second run ends
\* with exactly one file more and the others unchanged.
C3_Original ==
    (pc = "done" /\ prev.result = "ok" /\ since.kind = "group added"
        /\ DistinctFiles) =>
        /\ Cardinality(Created) = 1
        /\ StartFilesIntact

\* C3, amended. Monotonicity: when the first run completed, the developer
\* then only added one new handler group to the document, the file of that
\* group does not exist when the second run starts, and the second run
\* completes, the files after it are those before it plus exactly the new
\* group's file, which holds the stubs of the new group; no other file
\* changed.
C3_Monotone ==
    (pc = "done" /\ prev.result = "ok" /\ since.kind = "group added"
        /\ FilePath(since.name) \notin DOMAIN runStart.files) =>
        /\ Created = { FilePath(since.name) }
        /\ StartFilesIntact
        /\ WhollyWritten(files[FilePath(since.name)], since.name,
                         GroupOperations(doc.paths, since.name))

\* The second run is done, its document is the first run's plus one group,
\* and the first run had written a file.
C3_Witness ==
    /\ pc = "done"
    /\ prev.result = "ok"
    /\ prev.wrote # {}
    /\ since.kind = "group added"
    /\ FilePath(since.name) \notin DOMAIN runStart.files
    /\ runStart.files # << >>

----------------------------------------------------------------------------
(* C4: extension-field gating *)

\* The operation lacks one of the two extension fields.
Lacks(e) == e.handler = NoHandler \/ e.operationId = NoString
HasBoth(e) == ~Lacks(e)

LackingOps == { doc.paths[i] : i \in { j \in 1..Len(doc.paths) : Lacks(doc.paths[j]) } }
CompleteOps == { doc.paths[i] : i \in { j \in 1..Len(doc.paths) : ~Lacks(doc.paths[j]) } }

\* C4. Extension-field gating: at every point of a run, an operation of the
\* document that lacks the handler name or the operation id has no stub in
\* any file the run created, every created file is the file of the handler
\* of an operation that has both fields, every message names such a file or
\* such operation ids only, the groups the run works on are those of the
\* document without the lacking operations, and scanning the paths of a
\* document never throws.
C4_Gating ==
    InRun =>
        /\ \A p \in Created : \A k \in 1..Len(files[p].stubs) : \A e \in LackingOps :
              /\ files[p].stubs[k].route # << ToUpperCase(e.method), e.path >>
              /\ e.operationId # NoString =>
                    files[p].stubs[k].export # e.operationId
        /\ \A p \in Created : \E e \in CompleteOps : FilePath(e.handler) = p
        /\ \A k \in 1..Len(log) :
              /\ IsMark(log[k]) =>
                    \E e \in CompleteOps : log[k].fileName = FileName(e.handler)
              /\ \A n \in 1..Len(log[k].ids) :
                    \E e \in CompleteOps : log[k].ids[n] = e.operationId
        /\ (pc \in {"generate", "done"} \/ error = "writeFileSync") =>
              controllers = Scan(SelectSeq(doc.paths, HasBoth))
        /\ error = "Object.entries" => doc.kind # "ok"

\* A run is done that created a file from a document with an operation that
\* lacks a field but declares a summary.
C4_Witness ==
    /\ pc = "done"
    /\ Created # {}
    /\ \E e \in LackingOps : e.summary # NoString

----------------------------------------------------------------------------
(* C5: per-group completeness *)

\* C5. Per-group completeness: the file the run wrote for a handler group
\* has as many exports as the group has operations, the exported names are
\* the operation ids of the group, each export takes (req, res, next), and
\* no export carries the id of an operation of another group.
C5_Complete ==
    \A i \in 1..Len(controllers) :
        Written(i) =>
            LET name == controllers[i].name
                content == files[FilePath(name)]
                ops == GroupOperations(doc.paths, name)
            IN /\ Len(content.stubs) = Len(ops)
               /\ { content.stubs[k].export : k \in 1..Len(content.stubs) }
                     = { ops[k].operationId : k \in 1..Len(ops) }
               /\ \A k \in 1..Len(content.stubs) :
                     /\ content.stubs[k].params = << "req", "res", "next" >>
                     /\ \A e \in CompleteOps :
                           e.handler # name =>
                               content.stubs[k].export # e.operationId

\* A run is done that wrote the file of a group of two operations.
C5_Witness ==
    /\ pc = "done"
    /\ \E i \in 1..Len(controllers) :
          Written(i) /\ Len(GroupOperations(doc.paths, controllers[i].name)) = 2

----------------------------------------------------------------------------
(* C6: one file per handler group *)

\* C6 as stated. One file per handler group: when a run is done, the handler
\* names of the document lead to different files, the files the run created
\* are exactly the files of the handler names whose file did not exist, and
\* each of them holds all the qualifying operations of its handler name.
C6_OneFilePerGroup ==
    pc = "done" =>
        /\ DistinctFiles
        /\ Created = { FilePath(name) : name \in
                         { n \in DocGroups(doc.paths) :
                             FilePath(n) \notin DOMAIN runStart.files } }
        /\ \A name \in DocGroups(doc.paths) :
              FilePath(name) \notin DOMAIN runStart.files =>
                  WhollyWritten(files[FilePath(name)], name,
                                GroupOperations(doc.paths, name))

----------------------------------------------------------------------------
(* C7: a document that cannot be read or parsed *)

\* C7. When api/openapi.yaml cannot be read or parsed, the run never gets
\* past reading it: it fails with exit code 1 having printed nothing, and
\* the files and the directory of the controllers are as they were when it
\* started (the directory is not even created).
C7_ParseFailure ==
    (InRun /\ doc.kind \in {"unreadable", "malformed"}) =>
        /\ pc \in {"read", "failed"}
        /\ files = runStart.files
        /\ dirExists = runStart.dirExists
        /\ log = << >>
        /\ pc = "failed" =>
              exitCode = 1 /\ error \in {"readFileSync", "yaml.load"}

\* A run on text that is not YAML has failed, with no directory yet.
C7_Witness ==
    /\ pc = "failed"
    /\ error = "yaml.load"
    /\ ~dirExists

----------------------------------------------------------------------------
(* C8: a write that fails *)

\* C8. When writeFileSync throws for a group, the run is over: it failed
\* with exit code 1, 'Generation completed' is not printed, only the groups
\* before the failing one were reported, no file of a later group was
\* created, and the files written for the earlier groups, like the files
\* from before the run, are still there whole.
C8_WriteFailure ==
    error = "writeFileSync" =>
        /\ pc = "failed"
        /\ exitCode = 1
        /\ \A k \in 1..Len(log) : log[k] # CompletedMessage
        /\ idx \in 1..Len(controllers)
        /\ Len(Marks) = idx - 1
        /\ \A i \in 1..(idx - 1) :
              /\ Marks[i].fileName = FileName(controllers[i].name)
              /\ Written(i) =>
                    WhollyWritten(files[FilePath(controllers[i].name)],
                                  controllers[i].name, controllers[i].operations)
        /\ Created \subseteq { FilePath(controllers[i].name) : i \in 1..idx }
        /\ StartFilesIntact

\* The write of the first of two groups failed; the file of the second one
\* does not exist.
C8_Witness ==
    /\ pc = "failed"
    /\ error = "writeFileSync"
    /\ idx = 1
    /\ Len(controllers) = 2
    /\ FilePath(controllers[2].name) \notin DOMAIN files

----------------------------------------------------------------------------
(* C9: written or skipped *)

\* The file of the i-th group was written whole by this run.
WrittenWhole(i) ==
    /\ Written(i)
    /\ ~ExistedWhenReached(i)
    /\ FilePath(controllers[i].name) \in DOMAIN files
    /\ WhollyWritten(files[FilePath(controllers[i].name)], controllers[i].name,
                     GroupOperations(doc.paths, controllers[i].name))

\* The i-th group was skipped: its file was there when the group was
\* reached and is as it was when the run started.
SkippedWhole(i) ==
    /\ Skipped(i)
    /\ ExistedWhenReached(i)
    /\ FilePath(controllers[i].name) \in DOMAIN files
    /\ FilePath(controllers[i].name) \in DOMAIN runStart.files =>
          files[FilePath(controllers[i].name)]
              = runStart.files[FilePath(controllers[i].name)]

----------------------------------------------------------------------------
(* C10: skip is log-and-continue *)

----------------------------------------------------------------------------
(* C11: existence is the sole gate *)

\* The descriptors the scan makes of the qualifying operations of handler
\* `name`, read off the document alone.
GroupDescriptors(entries, name) ==
    LET operations == GroupOperations(entries, name)
    IN [ k \in 1..Len(operations) |-> Descriptor(operations[k]) ]

\* The file at the i-th group's path holds something else than the
\* group's operations give: written by hand, or generated from other
\* operations.
Differs(i) ==
    /\ FilePath(controllers[i].name) \in DOMAIN files
    /\ files[FilePath(controllers[i].name)]
          # Render(controllers[i].name,
                   GroupDescriptors(doc.paths, controllers[i].name))

\* C11. File existence is the sole gate: what a run does with a handler
\* group is fixed by the document and by the names of the files present,
\* so two runs on the same document over directories with the same file
\* names and different contents write the same files with the same bytes.
\* Whatever the existing files hold and whatever the developer changed in
\* the document since they were created, a group is written exactly when no
\* file of its name was there when it was reached and skipped exactly when
\* one was, and the bytes written are those the document gives for the
\* group; a write is attempted, and can fail, only for a group that had no
\* file.
C11_ExistenceSoleGate ==
    /\ (pc \in {"generate", "done"} \/ error = "writeFileSync") =>
          \A i \in 1..(idx - 1) :
              /\ Written(i) <=> ~ExistedWhenReached(i)
              /\ Skipped(i) <=> ExistedWhenReached(i)
              /\ Written(i) =>
                    /\ FilePath(controllers[i].name) \in DOMAIN files
                    /\ files[FilePath(controllers[i].name)]
                          = Render(controllers[i].name,
                                   GroupDescriptors(doc.paths, controllers[i].name))
    /\ error = "writeFileSync" => ~ExistedWhenReached(idx)

\* A run is done that skipped a group whose file was generated from other
\* operations than the group has now, and wrote another group.
C11_Witness ==
    /\ pc = "done"
    /\ \E i, j \in 1..Len(controllers) :
          /\ Skipped(i)
          /\ Differs(i)
          /\ files[FilePath(controllers[i].name)].kind = "generated"
          /\ Written(j)

----------------------------------------------------------------------------
(* C12: the types of the stubs *)

\* C12. Every stub the generator emits for operation id X types its request
\* and response parameters against X's aliases, ApiRequest<'X'> and
\* ApiResponse<'X'>, not against the untyped Request and Response.
C12_TypedStubs ==
    \A p \in DOMAIN files :
        files[p].kind = "generated" =>
            \A k \in 1..Len(files[p].stubs) :
                files[p].stubs[k].paramTypes
                    = << << "ApiRequest", files[p].stubs[k].export >>,
                         << "ApiResponse", files[p].stubs[k].export >>,
                         << "NextFunction" >> >>

----------------------------------------------------------------------------
(* C13: validateApiKey *)

\* The latest request is one for which the security handler asked
\* validateApiKey.
Validated ==
    /\ last.kind = "request"
    /\ last.auth.isValid # Undefined

\* `key` is a key of the apiKeys map with active = true.
ActiveKey(apiKeys, key) ==
    key \in DOMAIN apiKeys /\ apiKeys[key].active = TRUE

\* C13. validateApiKey(k) returns true if and only if k is a key of the
\* loaded configuration's apiKeys map and its entry has active = true;
\* unknown keys and keys with active = false give false.
C13_ValidateApiKey ==
    Validated =>
        ValueOf(last.auth.isValid)
            = ActiveKey(ValueOf(apiKeyManager).config.apiKeys, ValueOf(last.header))

\* validateApiKey said false for a key that is in the map with
\* active = false.
C13_Witness ==
    /\ Validated
    /\ ValueOf(last.auth.isValid) = FALSE
    /\ ValueOf(last.header) \in DOMAIN ValueOf(apiKeyManager).config.apiKeys

----------------------------------------------------------------------------
(* C14: the security handler *)

\* The latest request went to the handler createApiKeySecurityHandler
\* made.
Handled ==
    /\ last.kind = "request"
    /\ last.secured
    /\ apiKeyManager # Undefined

Threw401(outcome, message) ==
    /\ outcome.threw
    /\ ValueOf(outcome.error).status = Some(401)
    /\ ValueOf(outcome.error).message = message

ReturnedTrue(outcome) == ~outcome.threw /\ outcome.value = Some(TRUE)

\* C14 as stated: no x-api-key header gives 401 'API key is required', a
\* key that is unknown or inactive gives 401 'Invalid or inactive API key',
\* an existing active key gives true.
C14_Original ==
    Handled =>
        LET apiKeys == ValueOf(apiKeyManager).config.apiKeys
        IN IF last.header = Undefined
           THEN Threw401(last.auth, "API key is required")
           ELSE IF ~ActiveKey(apiKeys, ValueOf(last.header))
           THEN Threw401(last.auth, "Invalid or inactive API key")
           ELSE ReturnedTrue(last.auth)

\* C14, amended. The handler has exactly three outcomes: no x-api-key
\* header, or an empty one, gives an error with status 401 and message
\* 'API key is required'; a header that is not empty and is not an active
\* key of the configuration gives status 401 'Invalid or inactive API
\* key'; a header that is an existing active key gives true. It never
\* returns true for a missing, unknown or inactive key.
C14_ThreeOutcomes ==
    Handled =>
        LET apiKeys == ValueOf(apiKeyManager).config.apiKeys
        IN /\ IF last.header = Undefined \/ last.header = Some("")
              THEN Threw401(last.auth, "API key is required")
              ELSE IF ~ActiveKey(apiKeys, ValueOf(last.header))
              THEN Threw401(last.auth, "Invalid or inactive API key")
              ELSE ReturnedTrue(last.auth)
           /\ ReturnedTrue(last.auth) =>
                 /\ last.header # Undefined
                 /\ ActiveKey(apiKeys, ValueOf(last.header))

\* A request with an empty x-api-key header was told that the key is
\* required.
C14_Witness ==
    /\ Handled
    /\ last.header = Some("")
    /\ Threw401(last.auth, "API key is required")

----------------------------------------------------------------------------
(* C15: hot reload *)

\* `key` exists and is active in what the API-keys file held at the latest
\* load that succeeded.
ActiveAtLatestLoad(key) ==
    /\ loadHist.content # Undefined
    /\ ActiveKey(ValueOf(loadHist.content).apiKeys, key)

\* C15. Hot reload: across any sequence of edits of the API-keys file,
\* reloadConfig calls and requests, validating key k gives 'k exists and is
\* active' in the contents of the file as of the latest load that succeeded
\* (construction or reloadConfig): so after active is set to false and the
\* file is reloaded the key is rejected, and an edit that no reload has
\* followed changes no validation result.
C15_HotReload ==
    /\ apiKeyManager # Undefined =>
          /\ loadHist.content # Undefined
          /\ \A key \in KeyTexts :
                ValidateApiKey(ValueOf(apiKeyManager), key) = ActiveAtLatestLoad(key)
    /\ Validated =>
          ValueOf(last.auth.isValid) = ActiveAtLatestLoad(ValueOf(last.header))

\* The file was edited after the latest load and no reload has followed:
\* a key that the file now has with active = false is still accepted.
C15_Witness ==
    /\ Validated
    /\ ValueOf(last.auth.isValid) = TRUE
    /\ keysFile.kind = "json"
    /\ ValueOf(last.header) \in DOMAIN keysFile.apiKeys
    /\ keysFile.apiKeys[ValueOf(last.header)].active = FALSE
    /\ loadHist.content # Some(keysFile)

----------------------------------------------------------------------------
(* C16: no API-keys configuration at start *)

\* The answer to the latest request has this status.
Answered(status) ==
    /\ Len(last.responses) = 1
    /\ last.responses[1].status = status

\* C16. If the API-keys configuration cannot be loaded when the OpenAPI
\* middleware module initialises, the server still starts (the failed load
\* is no reason for the process to end), and from then on every request to
\* an operation with the ApiKeyAuth security requirement is answered 401
\* whatever key it carries; nothing that happens later in that process,
\* the file appearing included, gives the process a key manager.
C16_NotConfigured ==
    loadHist.atStart = "failed" =>
        /\ apiKeyManager = Undefined
        /\ srv \in { "spec", "app", "listening", "crashed" }
        /\ srv = "crashed" =>
              last.kind = "crash" /\ last.what \in { "readFileSync", "YAML.parse" }
        /\ (last.kind = "request" /\ last.secured) =>
              /\ last.auth.threw
              /\ Answered(401)

\* The server listens although the load failed at start; the file has
\* appeared since, with an active key, and a request carrying that key to
\* a secured operation was answered 401.
C16_Witness ==
    /\ loadHist.atStart = "failed"
    /\ srv = "listening"
    /\ last.kind = "request"
    /\ last.secured
    /\ last.header # Undefined
    /\ keysFile.kind = "json"
    /\ ActiveKey(keysFile.apiKeys, ValueOf(last.header))
    /\ Answered(401)

----------------------------------------------------------------------------
(* C17: the error-handling middleware *)

\* The error the latest request ended in at the error-handling middleware,
\* if it ended in one.
ErrorsSeen ==
    IF last.kind = "error" THEN { last.error }
    ELSE IF last.kind = "request" /\ last.auth.threw THEN { ValueOf(last.auth.error) }
    ELSE { }

----------------------------------------------------------------------------
(* C18: the logger *)

\* C18. Logger level gating: when NODE_ENV is 'production', logger.log,
\* logger.debug and logger.info put nothing on the console, while
\* logger.warn and logger.error always do; in 'development' and 'test' all
\* five methods do.
C18_LoggerGating ==
    last.kind = "logger" =>
        LET nodeEnv == ValueOf(config).NODE_ENV
        IN /\ (nodeEnv = "production" /\ last.method \in { "log", "debug", "info" }) =>
                 last.console = << >>
           /\ last.method \in { "warn", "error" } => Len(last.console) = 1
           /\ nodeEnv \in { "development", "test" } => Len(last.console) = 1

\* In production a call of logger.info put nothing on the console.
C18_Witness ==
    /\ last.kind = "logger"
    /\ env.NODE_ENV = Some("production")
    /\ last.method = "info"
    /\ last.console = << >>

----------------------------------------------------------------------------
(* C19: the environment is validated before anything else *)

\* What each text of PortTexts is as a port: the integer parseInt reads at
\* its start, where that is one of 1..65535.
PortOf(text) ==
    CASE text = << "3", "0", "0", "0" >> -> Some(3000)
      [] text = << "1" >> -> Some(1)
      [] text = << "6", "5", "5", "3", "5" >> -> Some(65535)
      [] text = << "8", "0", "8", "0", "a", "b", "c" >> -> Some(8080)
      [] text = << " ", "4", "2" >> -> Some(42)
      [] OTHER -> Undefined

\* The environment is one validateEnv accepts, according to the claim.
Acceptable(e) ==
    /\ e.PORT # Undefined => PortOf(ValueOf(e.PORT)) # Undefined
    /\ e.NODE_ENV # Undefined => ValueOf(e.NODE_ENV) \in NodeEnvs

Imported == srv \in { "middlewares", "spec", "app", "listening" }

\* C19. Fail-fast environment validation: validateEnv gives PORT = 3000
\* when PORT is unset and NODE_ENV = 'development' when NODE_ENV is unset;
\* when PORT is set the configuration is accepted only if the integer
\* parsed from it lies in 1..65535; otherwise validateEnv throws when the
\* configuration module is imported, so that the server never listens on a
\* port outside 1..65535 or with a NODE_ENV outside development,
\* production, test.
C19_ValidateEnv ==
    /\ Imported => Acceptable(env) /\ config # Undefined
    /\ (srv = "crashed" /\ last.what = "validateEnv") => ~Acceptable(env)
    /\ ~Acceptable(env) => srv \in { "down", "config", "crashed" }
    /\ config # Undefined =>
          /\ ValueOf(config).PORT
                = IF env.PORT = Undefined THEN 3000
                  ELSE ValueOf(PortOf(ValueOf(env.PORT)))
          /\ ValueOf(config).NODE_ENV
                = IF env.NODE_ENV = Undefined THEN "development"
                  ELSE ValueOf(env.NODE_ENV)
    /\ last.kind = "listen" =>
          /\ last.port \in 1..65535
          /\ last.port = ValueOf(config).PORT
          /\ ValueOf(config).NODE_ENV \in NodeEnvs

\* PORT=65536: the process ended in validateEnv.
C19_Witness ==
    /\ env.PORT = Some(<< "6", "5", "5", "3", "6" >>)
    /\ srv = "crashed"
    /\ last.kind = "crash"
    /\ last.what = "validateEnv"

----------------------------------------------------------------------------
(* C20: the path and query fallback law *)

\* The shape operation T declares for its path or query parameters, if it
\* declares one: the type written at `key` of its parameters, required or
\* optional, unless that is never.
DeclaredShape(T, key) ==
    LET parameters == schema.operations[T].props["parameters"].type.props
    IN IF key \in DOMAIN parameters /\ parameters[key].type # Never
       THEN Some(parameters[key].type)
       ELSE Undefined

\* The projection equals the declared shape when there is one and the
\* empty-object shape otherwise.
ObeysFallback(key) ==
    resolved.type = IF DeclaredShape(resolved.T, key) # Undefined
                    THEN ValueOf(DeclaredShape(resolved.T, key))
                    ELSE EmptyObject

\* C20. Path/query fallback law: for every operation id of the catalog,
\* the path-parameter projection is the operation's declared
\* path-parameter shape when one is declared and the empty-object shape
\* Record<string, never> otherwise, and the query-parameter projection
\* obeys the same rule for the declared query-parameter shape.
C20_FallbackLaw ==
    /\ resolved.kind = "PathParams" => ObeysFallback("path")
    /\ resolved.kind = "QueryParams" => ObeysFallback("query")

----------------------------------------------------------------------------
(* C21: the request body projection *)

\* The property at `key` of operation T's type, if it has one.
PropertyOf(T, key) ==
    LET props == schema.operations[T].props
    IN IF key \in DOMAIN props THEN Some(props[key]) ELSE Undefined

\* The payload shape a body type holds under content -> 'application/json',
\* if it holds one.
JsonPayload(body) ==
    IF /\ "content" \in DOMAIN body.props
       /\ "application/json" \in DOMAIN body.props["content"].type.props
    THEN Some(body.props["content"].type.props["application/json"].type)
    ELSE Undefined

\* The JSON payload operation T declares for its request body, required or
\* not, if it declares one.
DeclaredRequestPayload(T) ==
    IF PropertyOf(T, "requestBody") = Undefined THEN Undefined
    ELSE JsonPayload(ValueOf(PropertyOf(T, "requestBody")).type)

\* Operation T declares no request body: no key, or `requestBody?: never`.
DeclaresNoRequestBody(T) ==
    \/ PropertyOf(T, "requestBody") = Undefined
    \/ ValueOf(PropertyOf(T, "requestBody")).type.name = "never"

\* C21. The request-body projection RequestBody<T> resolves to the payload
\* shape found under requestBody -> content -> 'application/json' when the
\* operation declares one, and to the `undefined` type when the operation
\* declares no request body.
C21_RequestBody ==
    resolved.kind = "RequestBody" =>
        /\ DeclaredRequestPayload(resolved.T) # Undefined =>
              resolved.type = ValueOf(DeclaredRequestPayload(resolved.T))
        /\ DeclaresNoRequestBody(resolved.T) =>
              resolved.type = Shape("undefined")

----------------------------------------------------------------------------
(* C22: the response body projection *)

\* The status ResponseBody was resolved for: the one given, or the default.
StatusOf(projection) ==
    IF projection.Status = Undefined THEN 200 ELSE ValueOf(projection.Status)

\* What operation T declares at status S, if it declares a response there.
DeclaredResponse(T, S) ==
    LET responses == schema.operations[T].props["responses"].type.props
    IN IF S \in DOMAIN responses THEN Some(responses[S].type) ELSE Undefined

\* The response declared at S has no body: `content?: never`.
HasNoBody(response) ==
    /\ "content" \in DOMAIN response.props
    /\ response.props["content"].type.name = "never"

\* C22. The response-body projection ResponseBody<T, S> (S defaults to 200)
\* resolves to the payload shape found under responses[S] -> content ->
\* 'application/json' when the operation declares a JSON body at status S,
\* and to `void` when the operation declares no body at S or does not
\* declare status S at all.
C22_ResponseBody ==
    resolved.kind = "ResponseBody" =>
        LET declared == DeclaredResponse(resolved.T, StatusOf(resolved))
        IN /\ declared # Undefined /\ JsonPayload(ValueOf(declared)) # Undefined =>
                 resolved.type = ValueOf(JsonPayload(ValueOf(declared)))
           /\ declared # Undefined /\ HasNoBody(ValueOf(declared)) =>
                 resolved.type = Shape("void")
           /\ declared = Undefined => resolved.type = Shape("void")

\* ResponseBody<'getUserById', 204> is void where the operation has a JSON
\* body at 200 and none at 204, and the default status found the JSON body
\* of the other operation.
C22_Witness ==
    /\ resolved.kind = "ResponseBody"
    /\ resolved.T = "getUserById"
    /\ resolved.Status = Some(204)
    /\ resolved.type = Shape("void")
    /\ DeclaredResponse("getUserById", 204) = Some(NoContent)
    /\ DeclaredResponse("getUserById", 200) # Undefined
    /\ JsonPayload(ValueOf(DeclaredResponse("getUserById", 200))) # Undefined

----------------------------------------------------------------------------
(* C23: ordering *)

\* The position in the document of the first qualifying operation that
\* declares handler `name`.
FirstAppearance(entries, name) ==
    CHOOSE i \in 1..Len(entries) :
        /\ Len(GroupOperations(<< entries[i] >>, name)) = 1
        /\ \A j \in 1..(i - 1) : Len(GroupOperations(<< entries[j] >>, name)) = 0

\* The method as the stubs show it.
UpperCased(method) == IF method = "get" THEN "GET" ELSE "POST"

\* C23. Ordering: handler groups are processed in the order in which their
\* handler name first appears while scanning paths, then methods within a
\* path; within a written file the stubs appear in that same scan order;
\* each stub records the upper-cased HTTP method together with the path.
C23_Ordering ==
    (pc \in { "generate", "done", "failed" } /\ apiSpec.kind = "ok") =>
        /\ \A i \in 1..Len(Marks) :
              /\ i <= Len(controllers)
              /\ Marks[i].fileName = FileName(controllers[i].name)
        /\ \A i, j \in 1..Len(controllers) :
              i < j =>
                  /\ { controllers[i].name, controllers[j].name }
                        \subseteq DocGroups(apiSpec.paths)
                  /\ FirstAppearance(apiSpec.paths, controllers[i].name)
                        < FirstAppearance(apiSpec.paths, controllers[j].name)
        /\ \A i \in 1..Len(controllers) :
              Written(i) =>
                  LET name == controllers[i].name
                      stubs == files[FilePath(name)].stubs
                      ops == GroupOperations(apiSpec.paths, name)
                  IN /\ Len(stubs) = Len(ops)
                     /\ \A k \in 1..Len(ops) :
                           /\ stubs[k].export = ops[k].operationId
                           /\ stubs[k].route = << UpperCased(ops[k].method), ops[k].path >>
                           /\ stubs[k].method = UpperCased(ops[k].method)
                           /\ stubs[k].path = ops[k].path

\* A run is done that wrote one file with the stubs of GET /users and
\* POST /users, in that order.
C23_Witness ==
    /\ pc = "done"
    /\ Len(controllers) = 1
    /\ Written(1)
    /\ Len(files[FilePath(controllers[1].name)].stubs) = 2
    /\ files[FilePath(controllers[1].name)].stubs[1].route = << "GET", "/users" >>
    /\ files[FilePath(controllers[1].name)].stubs[2].route = << "POST", "/users" >>

----------------------------------------------------------------------------
(* C24: the manual API-key middleware *)

\* The entry of the key the latest request presented, in the configuration
\* the manager holds, if the key is there and active.
PresentedActiveEntry ==
    LET apiKeys == ValueOf(apiKeyManager).config.apiKeys
    IN IF /\ last.header # Undefined
          /\ ValueOf(last.header) \in DOMAIN apiKeys
          /\ apiKeys[ValueOf(last.header)].active = TRUE
       THEN Some(apiKeys[ValueOf(last.header)])
       ELSE Undefined

\* C24. The manual API-key middleware calls next() exactly once if and only
\* if the request carries an existing active key; otherwise it sends
\* exactly one 401 response with code 'AUTHENTICATION_FAILED' and never
\* calls next(). req.apiKeyInfo is set only on the accepting path and equals
\* the configuration entry of the presented key.
C24_ManualMiddleware ==
    last.kind = "protected" =>
        /\ last.nextCalls = 1 <=> PresentedActiveEntry # Undefined
        /\ PresentedActiveEntry = Undefined =>
              /\ last.nextCalls = 0
              /\ Len(last.responses) = 1
              /\ last.responses[1].status = 401
              /\ last.responses[1].body.code = Some("AUTHENTICATION_FAILED")
        /\ last.apiKeyInfo # Undefined =>
              /\ PresentedActiveEntry # Undefined
              /\ last.apiKeyInfo = PresentedActiveEntry
        /\ PresentedActiveEntry # Undefined => last.apiKeyInfo # Undefined

\* A request with a key that is active in the configuration the manager
\* holds went through, while the file has been edited since it was loaded.
C24_Witness ==
    /\ last.kind = "protected"
    /\ last.header = Some("key-a")
    /\ last.nextCalls = 1
    /\ last.responses = << >>
    /\ last.apiKeyInfo = Some(KeyConfig("key-a", TRUE))
    /\ loadHist.content # Some(keysFile)

----------------------------------------------------------------------------
(* C25: the readiness wait of the setup script *)

\* How many times the script printed `message`.
Times(message) == Cardinality({ i \in 1..Len(printed) : printed[i] = message })

\* The server was started: the script is past `yarn dev &`.
Started == DEV_SERVER_PID # Undefined

\* The wait is over: the script has reported and gone on, or has ended
\* after it started the server.
WaitOver ==
    \/ step \in { "rm", "browser", "wait" }
    \/ step = "exited" /\ Started

\* C25. The setup script's readiness wait terminates after at most 30
\* polls with exactly one of three outcomes: health answered -> 'Server is
\* ready'; server process died -> exit 1 with 'Server process died
\* unexpectedly'; or 30 attempts elapsed -> exit 1 with 'Server failed to
\* start within timeout'. It never reports ready without a successful
\* health poll.
C25_ReadinessWait ==
    LET ready == Times("Server is ready and responding")
        died == Times("Server process died unexpectedly")
        timeout == Times("Server failed to start within timeout")
        answered == \E i \in 1..Len(polls) : polls[i]
    IN /\ Len(polls) <= 30
       /\ ready + died + timeout = IF WaitOver THEN 1 ELSE 0
       /\ ready = 1 <=> WaitOver /\ answered
       /\ ready = 1 => polls[Len(polls)]
       /\ died = 1 =>
             /\ step = "exited" /\ setupExit = Some(1)
             /\ ~answered /\ ~Running
       /\ timeout = 1 =>
             /\ step = "exited" /\ setupExit = Some(1)
             /\ ~answered /\ Len(polls) = 30

\* The script gave up after thirty polls without an answer.
C25_Witness ==
    /\ step = "exited"
    /\ setupExit = Some(1)
    /\ Len(polls) = 30
    /\ Times("Server failed to start within timeout") = 1

----------------------------------------------------------------------------
(* C26: the EXIT trap of the setup script *)

\* C26. The setup script never exits leaving the background dev server
\* running: on every exit path after the server has been started the EXIT
\* trap kills the server's PID; before the server is started the trap kills
\* nothing.
C26_TrapKillsServer ==
    /\ step = "exited" /\ Started =>
          /\ signalled = << ValueOf(DEV_SERVER_PID) >>
          /\ ~Running
    /\ step = "exited" /\ ~Started =>
          /\ signalled = << >>
          /\ devServer = "none"
    /\ step # "exited" => signalled = << >>

\* The script reported the server ready and then ended on a command that
\* failed; the trap ended the server.
C26_Witness ==
    /\ step = "exited"
    /\ Times("Server is ready and responding") = 1
    /\ signalled = << ValueOf(DEV_SERVER_PID) >>
    /\ devServer = "dead"
    /\ setupExit = Some(1)

----------------------------------------------------------------------------
(* C27: middleware order *)

\* The place of a layer in the application's stack.
Registered(name) == CHOOSE i \in 1..Len(app) : app[i].name = name

\* The request is for the root route or for a path under /api-docs.
ForOpenRoute(req) ==
    \/ req.method = "GET" /\ req.path = << >>
    \/ Len(req.path) >= 1 /\ req.path[1] = "api-docs"

\* C27. Middleware order: the root route and /api-docs are registered
\* before the OpenAPI validator (so they are served without validation or
\* API-key checks), and the error handler is registered last so every
\* error raised by the validator, a security handler, or a controller
\* reaches it.
C27_MiddlewareOrder ==
    /\ Registered("root") < Registered("validator")
    /\ Registered("api-docs") < Registered("validator")
    /\ Registered("errorHandler") = Len(app)
    /\ last.kind = "dispatch" =>
          /\ ForOpenRoute(last.request) =>
                /\ \A k \in 1..Len(last.visited) : last.visited[k] # "validator"
                /\ \A k \in 1..Len(last.raised) :
                      last.raised[k].source # "security handler"
                /\ last.request.body # "malformed" =>
                      /\ last.answer.by \in { "root", "api-docs" }
                      /\ last.answer.response.status = 200
          /\ \A k \in 1..Len(last.raised) :
                last.raised[k].source \in { "validator", "security handler", "controller" } =>
                    /\ last.visited[Len(last.visited)] = "errorHandler"
                    /\ last.answer.by = "errorHandler"
                    /\ last.answer.response =
                          errorHandlerMiddleware(last.raised[k].error).responses[1]

\* A request for /users without a key: what the security handler threw
\* was answered by the error handler.
C27_Witness ==
    /\ last.kind = "dispatch"
    /\ last.request.path = << "users" >>
    /\ last.request.header = Undefined
    /\ Len(last.raised) = 1
    /\ last.raised[1].source = "security handler"
    /\ last.answer.by = "errorHandler"
    /\ last.answer.response.status = 401

====
